---------------------------- MODULE Spec2Model ----------------------------
(***************************************************************************)
(* A model of the two protocol cores of ts_atwhitelight:                   *)
(*   - ChillerClient / ChillerModel.run_command (chiller_client.py,        *)
(*     chiller_model.py): one TCP connection, an asyncio.Lock around the   *)
(*     write + read of one command.                                        *)
(*   - LampModel (lamp_model.py): the poll-driven lamp state machine, the  *)
(*     turn_lamp_on / turn_lamp_off operations and their futures.          *)
(* Each asyncio task is a process with a program counter; one action is    *)
(* the code a task runs between two suspension points.                     *)
(***************************************************************************)
EXTENDS Integers, Sequences, FiniteSets, TLC

\* State of the chiller client.
VARIABLES
    client_state,        \* "new" (reader/writer None), "connected", "closed"
    communication_lock,  \* the task holding ChillerClient.communication_lock
    lock_waiters,        \* FIFO of tasks waiting in Lock.acquire
    cpc,                 \* per caller: "idle", "waiting", "inflight"
    ccmd,                \* per caller: command ID its current/last call wrote
    cres,                \* per caller: outcome of its last call
    cret,                \* per caller: command ID of the reply its last call returned
    to_chiller,          \* commands on the wire, not yet answered by the chiller
    reader_buf,          \* replies received in the StreamReader buffer
    handled,             \* command ID of the reply ChillerModel last dispatched
    last_release,        \* why the lock was last released
    woken_after,         \* per caller: release that let its current call in
    ncalls

chillerVars == <<client_state, communication_lock, lock_waiters, cpc, ccmd, cres,
                 cret, to_chiller, reader_buf, handled, last_release,
                 woken_after, ncalls>>

\* State of the lamp model, the LabJack and the lamp.
VARIABLES
    now,                   \* utils.current_tai()
    polled,                \* the status loop finished a poll in this instant
    labjack_connected,     \* LabJackInterface.handle is not None
    labjack_ok,            \* the LabJack answers (FALSE: reads and writes raise)
    lamp_set_voltage,      \* the lamp_set_voltage register of the LabJack
    photosensor,           \* the photo sensor sees light
    change_power_lock,     \* the actor holding LampModel.change_power_lock
    power_waiters,         \* FIFO of actors waiting for change_power_lock
    status_event,          \* LampModel.status_event is set
    lamp_was_on,           \* "None", "True", "False"
    lamp_on_time,
    lamp_off_time,
    lamp_unexpectedly_on,
    lamp_unexpectedly_off,
    lamp_on_future,        \* "done", "pending", "result", "cancelled" or the
    lamp_off_future,       \*   reason of the ExpectedError it was failed with
    evt_lampState,         \* the last evt_lampState written
    data,                  \* what the status loop read from the LabJack
    pc,                    \* per actor: where the task is suspended
    op,                    \* per actor: the operation it is running
    arg,                   \* per actor: arguments of the operation
    deadline,              \* per actor: when its wait_for times out
    ended,                 \* the operations that ended last, and how
    seen,                  \* per task awaiting lamp_on_future: what the polls
                           \*   read since its power write ("none", "dark", "light")
    hw_off_at,             \* when the register last went from on to 0 with no
                           \*   fault reported since (0: never, or cooldown over)
    cooldown_breach,       \* the register went 0 -> on within cooldown_period
    lamp_ncalls            \* calls of LampModel made so far

lampVars == <<now, polled, labjack_connected, labjack_ok, lamp_set_voltage,
              photosensor,
              change_power_lock, power_waiters, status_event, lamp_was_on,
              lamp_on_time, lamp_off_time, lamp_unexpectedly_on,
              lamp_unexpectedly_off, lamp_on_future, lamp_off_future,
              evt_lampState, data, pc, op, arg, deadline, ended, seen,
              hw_off_at, cooldown_breach, lamp_ncalls>>

\* State of the CSC.
VARIABLES
    summary_state,         \* "STANDBY", "DISABLED", "ENABLED" or "FAULT"
    should_be_connected,   \* ATWhiteLightCsc.should_be_connected
    chiller_configured,    \* chiller_model is not None and chiller_model.configured
    chiller_watchdog       \* the last evt_chillerWatchdog written

cscVars == <<summary_state, should_be_connected, chiller_configured,
             chiller_watchdog>>

\* State of the chiller model.
VARIABLES
    seen_fan_speeds,         \* ChillerModel.seen_fan_speeds
    seen_temperatures,       \* ChillerModel.seen_temperatures
    seen_tec_bank_currents,  \* ChillerModel.seen_tec_bank_currents
    seen_alarms,             \* ChillerModel.seen_alarms
    since_write,             \* per topic: the fields handled since the topic
                             \*   was last written or the sets were reset
    written,                 \* the topics written in the last step, each with
                             \*   the fields handled since its last write
    cm_client,               \* "none", "connected", "lost" (the peer closed
                             \*   the connection) or "closed"
    wire,                    \* commands written whose reply was not read yet
    tpc,                     \* per task: where it is (see LoopInit)
    tcmd,                    \* per task: the command it waits a reply for
    stack,                   \* per task: the handle_watchdog calls it is in
    loop_index,              \* per task: index of its next command
    evt_chillerWatchdog,     \* the last evt_chillerWatchdog written
    evt_chillerConnected,    \* the last evt_chillerConnected written
    status_called,           \* the calls of the status callback made in the
                             \*   last step
    disconnect_task,         \* the task a loop created to run disconnect()
    raised,                  \* the exception that left run_command in the
                             \*   last step
    cm_ncalls                \* run_command calls made so far

seenVars == <<seen_fan_speeds, seen_temperatures, seen_tec_bank_currents,
              seen_alarms, since_write, written>>
loopVars == <<cm_client, wire, tpc, tcmd, stack, loop_index,
              evt_chillerWatchdog, evt_chillerConnected, status_called,
              disconnect_task, raised, cm_ncalls>>

\* The bytes exchanged with the chiller and what the chiller holds.
VARIABLES
    cmd,                     \* the command given to ChillerClient.run_command
    sent,                    \* the bytes the client wrote for it
    reply_bytes,             \* the bytes the chiller wrote in reply
    mock_masks,              \* MockChiller: l1_alarms, l21_alarms,
                             \*   l22_alarms, warnings
    published_masks,         \* the masks of evt_chillerAlarms and
                             \*   evt_chillerWarnings
    thresholds,              \* config: the alarm and warning thresholds
    chiller_thresholds,      \* the thresholds the chiller holds, by command
    configure_pc             \* configure_chiller: index of its next command

protoVars == <<cmd, sent, reply_bytes, mock_masks, published_masks,
               thresholds, chiller_thresholds, configure_pc>>

\* State of the shutter, of the status loop tasks and of the decoding of the
\* blinking error signal.
VARIABLES
    shutter_pc,              \* where move_shutter is: "idle", "enabled" (the
                             \*   motor is enabled, the event write awaited)
                             \*   or "waiting" (in wait_for)
    shutter_do_open,         \* the do_open of the move_shutter call
    evt_shutterState,        \* the data of evt_shutterState
    do_open_shutter,         \* LabJack: the shutter_direction written
    shutter_enabled,         \* LabJack: the motor is enabled
    shutter_switches,        \* the open and closed switches are active
    shutter_events,          \* shutter_open_event, shutter_closed_event
    shutter_result,          \* how the last move_shutter call ended
    shutter_call,            \* the move_shutter call begun in the last step
    shutter_written,         \* the LabJack channels written in the last step
    status_loops,            \* per status loop task created: where it is
    status_task,             \* LampModel.status_task: index of the task
    tai,                     \* utils.current_tai(), in ticks
    controller,              \* the lamp controller: its error code and when
                             \*   it began to blink it
    blinking_error_was_on,   \* LampModel.blinking_error_was_on
    blinking_error_off_time, \* LampModel.blinking_error_off_time
    error_code_start_time,   \* LampModel.error_code_start_time
    blinking_error_gap_seen, \* LampModel.blinking_error_gap_seen
    controllerError,         \* evt_lampState.controllerError
    blink_status_event       \* LampModel.status_event is set

shutterVars == <<shutter_pc, shutter_do_open, evt_shutterState,
                 do_open_shutter, shutter_enabled, shutter_switches,
                 shutter_events, shutter_result, shutter_call,
                 shutter_written>>
pollVars == <<status_loops, status_task>>
blinkVars == <<tai, controller, blinking_error_was_on,
               blinking_error_off_time, error_code_start_time,
               blinking_error_gap_seen, controllerError,
               blink_status_event>>
lampMoreVars == <<shutterVars, pollVars, blinkVars>>

\* The state of the parts of the model after the CSC.
cmVars == <<seenVars, loopVars, protoVars, lampMoreVars>>

vars == <<chillerVars, lampVars, cscVars, cmVars>>

(***************************************************************************)
(* Part 1: ChillerClient                                                   *)
(***************************************************************************)

\* The tasks that call run_command: the watchdog loop, the telemetry loop
\* and a user-issued command of the CSC.
Callers == {"watchdog", "telemetry", "user"}

\* Command IDs the callers send (watchdog, read supply temperature,
\* set chiller status).
CmdIds == {"01", "04", "15"}

\* The command each caller issues.
CmdOf(p) == CASE p = "watchdog" -> {"01"}
              [] p = "telemetry" -> {"04"}
              [] OTHER -> {"15"}

\* Bound on the number of run_command calls in one behaviour.
MaxCalls == 4

NoOne == "none"

ChillerInit ==
    /\ client_state = "new"
    /\ communication_lock = NoOne
    /\ lock_waiters = <<>>
    /\ cpc = [p \in Callers |-> "idle"]
    /\ ccmd = [p \in Callers |-> "none"]
    /\ cres = [p \in Callers |-> "none"]
    /\ cret = [p \in Callers |-> "none"]
    /\ to_chiller = <<>>
    /\ reader_buf = <<>>
    /\ handled = "none"
    /\ last_release = "none"
    /\ woken_after = [p \in Callers |-> "none"]
    /\ ncalls = 0

\* ChillerClient.connected
ClientConnected == client_state = "connected"

\* asyncio.Lock.acquire takes the lock without waiting only when it is
\* unlocked and nobody is queued for it.
CanAcquire_NoLock == TRUE
CanAcquire == communication_lock = NoOne /\ lock_waiters = <<>>

\* The lock after the `async with` block is left by an exception
\* (asyncio.TimeoutError from wait_for): __aexit__ releases it.
ExitLockOnTimeout_Leak(p) == communication_lock
ExitLockOnTimeout(p) == NoOne

\* The lock after the `async with` block is left normally.
ExitLock(p) == NoOne

\* ChillerClient.connect
ClientConnect ==
    /\ client_state = "new"
    /\ client_state' = "connected"
    /\ UNCHANGED <<communication_lock, lock_waiters, cpc, ccmd, cres, cret,
                   to_chiller, reader_buf, handled, last_release, woken_after,
                   ncalls>>
    /\ UNCHANGED <<lampVars, cscVars, cmVars>>

\* ChillerClient.disconnect: the writer is closed, reader and writer are None.
\* ChillerModel.connect makes a new ChillerClient for the next connection.
ClientDisconnect ==
    /\ client_state = "connected"
    /\ client_state' = "closed"
    /\ UNCHANGED <<communication_lock, lock_waiters, cpc, ccmd, cres, cret,
                   to_chiller, reader_buf, handled, last_release, woken_after,
                   ncalls>>
    /\ UNCHANGED <<lampVars, cscVars, cmVars>>

\* run_command up to its first suspension point: the connected check, then
\* `async with self.communication_lock`; with the lock free the command is
\* written at once, otherwise the task queues for the lock.
RunCommandCall(p, c) ==
    /\ cpc[p] = "idle"
    /\ ncalls < MaxCalls
    /\ ncalls' = ncalls + 1
    /\ IF ~ClientConnected
         THEN /\ cres' = [cres EXCEPT ![p] = "notconnected"]
              /\ UNCHANGED <<communication_lock, lock_waiters, cpc, ccmd, cret,
                             to_chiller, woken_after>>
         ELSE /\ ccmd' = [ccmd EXCEPT ![p] = c]
              /\ cres' = [cres EXCEPT ![p] = "none"]
              /\ cret' = [cret EXCEPT ![p] = "none"]
              /\ IF CanAcquire
                   THEN /\ communication_lock' = p
                        /\ to_chiller' = Append(to_chiller, c)
                        /\ cpc' = [cpc EXCEPT ![p] = "inflight"]
                        /\ woken_after' = [woken_after EXCEPT ![p] = "none"]
                        /\ UNCHANGED lock_waiters
                   ELSE /\ lock_waiters' = Append(lock_waiters, p)
                        /\ cpc' = [cpc EXCEPT ![p] = "waiting"]
                        /\ UNCHANGED <<communication_lock, to_chiller, woken_after>>
    /\ UNCHANGED <<client_state, reader_buf, handled, last_release>>
    /\ UNCHANGED <<lampVars, cscVars, cmVars>>

\* A queued task is woken by the release of the lock, takes the lock and
\* writes its command.  If the client was disconnected meanwhile the writer
\* is None and the write raises AttributeError, which leaves the block.
RunCommandWake(p) ==
    /\ cpc[p] = "waiting"
    /\ communication_lock = NoOne
    /\ lock_waiters # <<>> /\ Head(lock_waiters) = p
    /\ lock_waiters' = Tail(lock_waiters)
    /\ IF ClientConnected
         THEN /\ communication_lock' = p
              /\ to_chiller' = Append(to_chiller, ccmd[p])
              /\ cpc' = [cpc EXCEPT ![p] = "inflight"]
              /\ woken_after' = [woken_after EXCEPT ![p] = last_release]
              /\ UNCHANGED <<cres, last_release>>
         ELSE /\ communication_lock' = ExitLock(p)
              /\ cpc' = [cpc EXCEPT ![p] = "idle"]
              /\ cres' = [cres EXCEPT ![p] = "attributeerror"]
              /\ last_release' = "error"
              /\ UNCHANGED <<to_chiller, woken_after>>
    /\ UNCHANGED <<client_state, ccmd, cret, reader_buf, handled, ncalls>>
    /\ UNCHANGED <<lampVars, cscVars, cmVars>>

\* The chiller answers the oldest command it has not answered yet; the reply
\* carries the command ID of that command (MockChiller.command_loop).
ChillerReply ==
    /\ ClientConnected
    /\ to_chiller # <<>>
    /\ reader_buf' = Append(reader_buf, Head(to_chiller))
    /\ to_chiller' = Tail(to_chiller)
    /\ UNCHANGED <<client_state, communication_lock, lock_waiters, cpc, ccmd, cres,
                   cret, handled, last_release, woken_after, ncalls>>
    /\ UNCHANGED <<lampVars, cscVars, cmVars>>

\* reader.readuntil returns the next "\r"-terminated frame of the buffer;
\* run_command returns it and ChillerModel.run_command hands it to
\* handle_reply, which dispatches on the command ID found in the reply.
RunCommandReply(p) ==
    /\ cpc[p] = "inflight"
    /\ reader_buf # <<>>
    /\ cret' = [cret EXCEPT ![p] = Head(reader_buf)]
    /\ handled' = Head(reader_buf)
    /\ reader_buf' = Tail(reader_buf)
    /\ cres' = [cres EXCEPT ![p] = "ok"]
    /\ cpc' = [cpc EXCEPT ![p] = "idle"]
    /\ communication_lock' = ExitLock(p)
    /\ last_release' = "reply"
    /\ UNCHANGED <<client_state, lock_waiters, ccmd, to_chiller, woken_after, ncalls>>
    /\ UNCHANGED <<lampVars, cscVars, cmVars>>

\* wait_for(readuntil, command_timeout) times out: no frame is in the buffer.
RunCommandTimeout(p) ==
    /\ cpc[p] = "inflight"
    /\ reader_buf = <<>>
    /\ cres' = [cres EXCEPT ![p] = "timeout"]
    /\ cpc' = [cpc EXCEPT ![p] = "idle"]
    /\ communication_lock' = ExitLockOnTimeout(p)
    /\ last_release' = "timeout"
    /\ UNCHANGED <<client_state, lock_waiters, ccmd, cret, to_chiller, reader_buf,
                   handled, woken_after, ncalls>>
    /\ UNCHANGED <<lampVars, cscVars, cmVars>>

\* The connection was closed while the call was reading: readuntil raises
\* IncompleteReadError.
RunCommandReadFails(p) ==
    /\ cpc[p] = "inflight"
    /\ client_state = "closed"
    /\ reader_buf = <<>>
    /\ cres' = [cres EXCEPT ![p] = "readerror"]
    /\ cpc' = [cpc EXCEPT ![p] = "idle"]
    /\ communication_lock' = ExitLock(p)
    /\ last_release' = "error"
    /\ UNCHANGED <<client_state, lock_waiters, ccmd, cret, to_chiller, reader_buf,
                   handled, woken_after, ncalls>>
    /\ UNCHANGED <<lampVars, cscVars, cmVars>>

ChillerNext ==
    \/ ClientConnect
    \/ ClientDisconnect
    \/ \E p \in Callers : \E c \in CmdOf(p) : RunCommandCall(p, c)
    \/ \E p \in Callers : RunCommandWake(p)
    \/ ChillerReply
    \/ \E p \in Callers : RunCommandReply(p)
    \/ \E p \in Callers : RunCommandTimeout(p)
    \/ \E p \in Callers : RunCommandReadFails(p)

(***************************************************************************)
(* Part 2: LampModel                                                       *)
(***************************************************************************)

\* The tasks that call LampModel: command handlers of the CSC.
Tasks == {"t1", "t2"}

\* The status loop task and the calling tasks.
Actors == Tasks \cup {"status"}

\* Time is counted in whole seconds of TAI.  StartTime is the time the model
\* is constructed at, MaxTime the last instant a behaviour reaches.
StartTime == 3
MaxTime == 8

\* Bound on the calls of LampModel in one behaviour.
MaxLampCalls == 4

\* config.lamp values (seconds).
warmup_period == 2
cooldown_period == 2
max_lamp_on_delay == 1
max_lamp_off_delay == 1

ONOFF_COMMAND_TIMEOUT_MARGIN == 2

\* Lamp power (W) and the set voltage (mV) of the lamp controller input.
MIN_POWER == 800
MAX_POWER == 1200
VOLTS_AT_MIN_POWER == 1961
VOLTS_AT_MAX_POWER == 5000
LAMP_SET_VOLTAGE_ON_THRESHOLD == VOLTS_AT_MIN_POWER - 100

\* Powers a caller asks for: one below the range, one in it, one above it.
Powers == {700, MIN_POWER, 1300}

voltage_from_power(power) ==
    IF power = 0 THEN 0
    ELSE ((power - MIN_POWER) * (VOLTS_AT_MAX_POWER - VOLTS_AT_MIN_POWER))
             \div (MAX_POWER - MIN_POWER) + VOLTS_AT_MIN_POWER

offset_timestamp(timestamp, offset) ==
    IF timestamp = 0 THEN 0 ELSE timestamp + offset

Max(a, b) == IF a >= b THEN a ELSE b

NoData == [light |-> FALSE, volt |-> 0]
NoArg == [power |-> 0, wait |-> FALSE]

\* LampModel.__init__; the LabJack is not connected, the lamp is off.
LampInit ==
    /\ now = StartTime
    /\ polled = FALSE
    /\ labjack_connected = FALSE
    /\ labjack_ok = TRUE
    /\ lamp_set_voltage = 0
    /\ photosensor = FALSE
    /\ change_power_lock = NoOne
    /\ power_waiters = <<>>
    /\ status_event = FALSE
    /\ lamp_was_on = "None"
    /\ lamp_on_time = 0
    /\ lamp_off_time = 0
    /\ lamp_unexpectedly_on = FALSE
    /\ lamp_unexpectedly_off = FALSE
    /\ lamp_on_future = "done"
    /\ lamp_off_future = "done"
    /\ evt_lampState = [basicState |-> "UNKNOWN", lightDetected |-> FALSE,
                        cooldownEndTime |-> 0, warmupEndTime |-> 0]
    /\ data = NoData
    /\ pc = [a \in Actors |-> IF a = "status" THEN "none" ELSE "idle"]
    /\ op = [a \in Actors |-> IF a = "status" THEN "loop" ELSE "none"]
    /\ arg = [a \in Actors |-> NoArg]
    /\ deadline = [a \in Actors |-> 0]
    /\ ended = {}
    /\ seen = [t \in Tasks |-> "none"]
    /\ hw_off_at = 0
    /\ cooldown_breach = FALSE
    /\ lamp_ncalls = 0

\* LampModel.status_seen
status_seen == labjack_connected /\ status_event

remaining_cooldown(off_time) ==
    IF off_time = 0 THEN 0
    ELSE Max(0, cooldown_period - (now - off_time))

get_remaining_cooldown_Zero == remaining_cooldown(0)
get_remaining_cooldown == remaining_cooldown(lamp_off_time)

get_remaining_warmup_Late(on_time) ==
    IF on_time = 0 THEN 0
    ELSE Max(0, warmup_period + 1 - (now - on_time))
get_remaining_warmup(on_time) ==
    IF on_time = 0 THEN 0
    ELSE Max(0, warmup_period - (now - on_time))

\* The bookkeeping of set_status taking every poll that reads an on voltage
\* as the lamp being turned on.
TrackCommanded_Restart(commanded) ==
    LET s == [was |-> lamp_was_on, ont |-> lamp_on_time, offt |-> lamp_off_time,
              uon |-> lamp_unexpectedly_on, uoff |-> lamp_unexpectedly_off]
    IN  IF lamp_was_on = "None"
          THEN [s EXCEPT !.was = IF commanded THEN "True" ELSE "False",
                         !.ont = IF commanded /\ lamp_on_time = 0
                                   THEN now - warmup_period ELSE lamp_on_time]
        ELSE IF commanded
          THEN IF ~lamp_unexpectedly_off
                 THEN [s EXCEPT !.was = "True", !.ont = now]
                 ELSE s
        ELSE IF lamp_was_on = "True" /\ ~lamp_unexpectedly_on
                 THEN [s EXCEPT !.was = "False", !.offt = now]
                 ELSE s

\* set_status, connected: the bookkeeping of lamp_was_on and the on/off
\* times from the set voltage that was read.
TrackCommanded(commanded) ==
    LET s == [was |-> lamp_was_on, ont |-> lamp_on_time, offt |-> lamp_off_time,
              uon |-> lamp_unexpectedly_on, uoff |-> lamp_unexpectedly_off]
    IN  IF lamp_was_on = "None"
          THEN [s EXCEPT !.was = IF commanded THEN "True" ELSE "False",
                         !.ont = IF commanded /\ lamp_on_time = 0
                                   THEN now - warmup_period ELSE lamp_on_time]
        ELSE IF commanded
          THEN IF lamp_was_on = "False" /\ ~lamp_unexpectedly_off
                 THEN [s EXCEPT !.was = "True", !.ont = now]
                 ELSE s
        ELSE IF lamp_was_on = "True" /\ ~lamp_unexpectedly_on
                 THEN [s EXCEPT !.was = "False", !.offt = now]
                 ELSE s

\* The delay tests of set_status.
OnDelayExceeded(s) == now - s.ont > max_lamp_on_delay
OffDelayExceeded(s) == now - s.offt > max_lamp_off_delay

\* set_status, connected: the basic state from the tracked values and the
\* photo sensor.
Classify(s, light) ==
    IF s.was = "True"
      THEN IF ~light
             THEN IF OnDelayExceeded(s)
                    THEN [s EXCEPT !.was = "False", !.offt = 0, !.uoff = TRUE]
                             @@ [basic |-> "UNEXPECTEDLY_OFF"]
                    ELSE s @@ [basic |-> "TURNING_ON"]
           ELSE IF get_remaining_warmup(s.ont) > 0
                    THEN s @@ [basic |-> "WARMUP"]
                    ELSE s @@ [basic |-> "ON"]
      ELSE IF light
             THEN IF OffDelayExceeded(s)
                    THEN [s EXCEPT !.offt = 0, !.uon = TRUE]
                             @@ [basic |-> "UNEXPECTEDLY_ON"]
                    ELSE s @@ [basic |-> "TURNING_OFF"]
           ELSE IF remaining_cooldown(s.offt) > 0
                    THEN s @@ [basic |-> "COOLDOWN"]
                    ELSE s @@ [basic |-> "OFF"]

\* set_status when the LabJack is not connected.
ClassifyDisconnected ==
    [was |-> lamp_was_on, ont |-> lamp_on_time, offt |-> lamp_off_time,
     uon |-> lamp_unexpectedly_on, uoff |-> lamp_unexpectedly_off,
     basic |-> IF get_remaining_cooldown > 0 THEN "COOLDOWN" ELSE "UNKNOWN"]

ComputeStatus(connected, light, volt) ==
    IF connected
      THEN Classify(TrackCommanded(volt > LAMP_SET_VOLTAGE_ON_THRESHOLD), light)
      ELSE ClassifyDisconnected

LampStateOf(s, light) ==
    [basicState |-> s.basic,
     lightDetected |-> light,
     cooldownEndTime |-> offset_timestamp(s.offt, cooldown_period),
     warmupEndTime |-> offset_timestamp(s.ont, warmup_period)]

\* Variables an operation of LampModel leaves alone unless it says otherwise.
envVars == <<now, photosensor, labjack_ok, chillerVars, cscVars, cmVars>>
trackVars == <<lamp_was_on, lamp_on_time, lamp_off_time, evt_lampState>>

\* abort_lamp_on_future / abort_lamp_off_future / set_result: a future that
\* is done keeps its outcome.
Settled(fut, outcome) == IF fut = "pending" THEN outcome ELSE fut

\* The outcome of a done future that no call is going to look at.
Forget(fut) == IF fut = "pending" THEN "pending" ELSE "done"

\* The outcome an actor suspended on a future gets when, in one step,
\* lamp_on_future is settled with onOut and lamp_off_future with offOut
\* ("pending": that future is not settled in the step).
Woken(x, onOut, offOut) ==
    IF pc[x] = "await_on" /\ lamp_on_future = "pending" THEN onOut
    ELSE IF pc[x] \in {"await_off", "await_off_plain"} /\ lamp_off_future = "pending"
      THEN offOut
    ELSE "pending"

\* Where an actor goes on when the future it awaits is done with outcome o.
\* In basic_disconnect the await is inside turn_lamp_off: a result lets
\* basic_disconnect go on, an exception leaves disconnect.  In the status
\* loop the await is inside the status callback: CancelledError ends the
\* loop (`except asyncio.CancelledError`), a result or an exception, which
\* handle_summary_state logs, lets the poll finish.
ResumePc(x, o) ==
    IF op[x] = "disconnect" /\ o = "result" THEN "disc_abort"
    ELSE IF x = "status" THEN IF o = "cancelled" THEN "none" ELSE "sleep"
    ELSE "idle"

\* How the operation of an actor ends when the future it awaits, or finds
\* done, has outcome o.
ResumeResult(x, o) ==
    IF op[x] = "disconnect" THEN "raised"
    ELSE IF o \in {"result", "done"} THEN "ok"
    ELSE o

IdleOp(x) == IF x = "status" THEN "loop" ELSE "none"
IdlePc(x) == IF x = "status" THEN "none" ELSE "idle"

\* The record of an operation that ended.
Rec(x, o, r) == [task |-> x, op |-> o, result |-> r]

\* The operation of x ends in a step that settles the futures.
Ends(x, onOut, offOut) ==
    /\ Woken(x, onOut, offOut) # "pending"
    /\ ResumePc(x, Woken(x, onOut, offOut)) # "disc_abort"

\* The tasks after one step: the futures are settled with onOut and offOut,
\* which resumes the actors suspended on them; the acting actor a goes to
\* apc, running aop with arguments aarg and wait_for deadline adl; own is
\* how the operation of a ended, if it did.
Resume(onOut, offOut, a, apc, aop, aarg, adl, own) ==
    /\ pc' = [x \in Actors |->
                 IF x = a THEN apc
                 ELSE IF Woken(x, onOut, offOut) # "pending"
                   THEN ResumePc(x, Woken(x, onOut, offOut))
                 ELSE pc[x]]
    /\ op' = [x \in Actors |->
                 IF x = a THEN aop
                 ELSE IF Ends(x, onOut, offOut) THEN IdleOp(x)
                 ELSE op[x]]
    /\ arg' = [arg EXCEPT ![a] = aarg]
    /\ deadline' = [x \in Actors |->
                 IF x = a THEN adl
                 ELSE IF Woken(x, onOut, offOut) # "pending" THEN 0
                 ELSE deadline[x]]
    /\ ended' = {Rec(x, op[x], ResumeResult(x, Woken(x, onOut, offOut))) :
                    x \in {y \in Actors \ {a} : Ends(y, onOut, offOut)}}
                \cup own
    /\ seen' = [t \in Tasks |->
                 IF t = a \/ Ends(t, onOut, offOut) THEN "none" ELSE seen[t]]

\* asyncio.Lock.acquire takes the lock without waiting only when it is
\* unlocked and nobody is queued for it.
LampCanAcquire == change_power_lock = NoOne /\ power_waiters = <<>>

\* The actor at the head of the queue of a free change_power_lock.
LockHead(a) ==
    /\ pc[a] = "lockwait"
    /\ change_power_lock = NoOne
    /\ power_waiters # <<>>
    /\ Head(power_waiters) = a

\* LabJackInterface.read / write work: there is a handle and the device
\* answers.
LabJackWorks == labjack_connected /\ labjack_ok

\* A call of LampModel that goes past its checks is counted.
Counted == lamp_ncalls < MaxLampCalls /\ lamp_ncalls' = lamp_ncalls + 1

\* MockLabJackInterface.write(lamp_set_voltage=voltage): the register is
\* set, and the time it went from on to 0 is kept.  The register going
\* from 0 to on less than cooldown_period later is a breach of the
\* cooldown, unless UNEXPECTEDLY_ON or UNEXPECTEDLY_OFF was reported in
\* between (hw_off_at is 0 then).
HwWrite(voltage) ==
    /\ lamp_set_voltage' = voltage
    /\ hw_off_at' = IF voltage = 0 /\ lamp_set_voltage > 0 THEN now ELSE hw_off_at
    /\ cooldown_breach' = (/\ voltage > 0 /\ lamp_set_voltage = 0
                           /\ hw_off_at # 0
                           /\ now - hw_off_at < cooldown_period)

NoHwWrite ==
    /\ UNCHANGED <<lamp_set_voltage, hw_off_at>>
    /\ cooldown_breach' = FALSE

\* The status loop is not in the middle of a poll, or it is suspended on a
\* future in its status callback.
StatusAtRest ==
    \/ pc["status"] = "none"
    \/ pc["status"] = "sleep" /\ polled
    \/ pc["status"] = "await_off_plain"

\* LampModel.connect on a model that is not connected: the futures are
\* aborted, the disconnected state is reported, the two flags are cleared,
\* the LabJack is connected and the status loop started.
Connect ==
    /\ ~labjack_connected
    /\ labjack_ok
    /\ pc["status"] = "none"
    /\ lamp_on_future' = Settled(lamp_on_future, "Connecting")
    /\ lamp_off_future' = Settled(lamp_off_future, "Connecting")
    /\ Resume("Connecting", "Connecting", "status", "sleep", "loop", NoArg, 0, {})
    /\ evt_lampState' = LampStateOf(ClassifyDisconnected, FALSE)
    /\ lamp_unexpectedly_off' = FALSE
    /\ lamp_unexpectedly_on' = FALSE
    /\ status_event' = FALSE
    /\ labjack_connected' = TRUE
    /\ polled' = FALSE
    /\ NoHwWrite
    /\ UNCHANGED <<change_power_lock, power_waiters, lamp_was_on, lamp_on_time,
                   lamp_off_time, data, lamp_ncalls>>
    /\ UNCHANGED envVars

\* status_loop: the top of the loop.  `async with self.change_power_lock`
\* and labjack.read(), which returns the photo sensor and the set voltage.
\* The loop sleeps between polls, so a task the lock was just released to
\* runs before the next poll.
StatusPoll ==
    /\ pc["status"] = "sleep"
    /\ LampCanAcquire
    /\ LabJackWorks
    /\ change_power_lock' = "status"
    /\ data' = [light |-> photosensor, volt |-> lamp_set_voltage]
    /\ pc' = [pc EXCEPT !["status"] = "gotdata"]
    /\ seen' = [t \in Tasks |->
                 IF pc[t] # "await_on" THEN seen[t]
                 ELSE IF photosensor THEN "light"
                 ELSE IF seen[t] = "none" THEN "dark"
                 ELSE seen[t]]
    /\ lamp_on_future' = Forget(lamp_on_future)
    /\ lamp_off_future' = Forget(lamp_off_future)
    /\ ended' = {}
    /\ NoHwWrite
    /\ UNCHANGED <<polled, labjack_connected, power_waiters, status_event,
                   lamp_unexpectedly_on, lamp_unexpectedly_off, op, arg,
                   deadline, lamp_ncalls>>
    /\ UNCHANGED <<trackVars, envVars>>

\* status_loop, `except Exception`: both futures are aborted and the loop
\* calls disconnect(cancel_status_loop=False), whose basic_disconnect calls
\* turn_lamp_off(force=True, wait=False); with lamp_was_on that makes a new
\* lamp_off_future and queues for the lock to write power 0, otherwise
\* basic_disconnect goes on to labjack.disconnect().  rest is the lock
\* queue without the status loop.
StatusLoopFails(rest) ==
    LET turnsOff == labjack_connected /\ lamp_was_on = "True"
        E == "StatusLoopFailed"
    IN  /\ lamp_on_future' = Settled(lamp_on_future, E)
        /\ lamp_off_future' = IF turnsOff THEN "pending"
                              ELSE Settled(lamp_off_future, E)
        /\ lamp_unexpectedly_off' = (lamp_unexpectedly_off /\ ~turnsOff)
        /\ Resume(E, E, "status", IF turnsOff THEN "lockwait" ELSE "disc_close",
                  "faildisc", NoArg, 0, {})
        /\ power_waiters' = IF turnsOff THEN Append(rest, "status") ELSE rest
        /\ data' = NoData
        /\ change_power_lock' = NoOne
        /\ NoHwWrite
        /\ UNCHANGED <<polled, labjack_connected, status_event,
                       lamp_unexpectedly_on, lamp_ncalls>>
        /\ UNCHANGED <<trackVars, envVars>>

\* status_loop: labjack.read() raises.
LabJackReadFails ==
    /\ pc["status"] = "sleep"
    /\ LampCanAcquire
    /\ ~LabJackWorks
    /\ StatusLoopFails(power_waiters)

\* status_loop: the read is done, the lock is released and set_status runs
\* up to the write of evt_lampState.
SetStatus ==
    /\ pc["status"] = "gotdata"
    /\ LET s == ComputeStatus(labjack_connected, data.light, data.volt)
       IN  /\ lamp_was_on' = s.was
           /\ lamp_on_time' = s.ont
           /\ lamp_off_time' = s.offt
           /\ lamp_unexpectedly_on' = s.uon
           /\ lamp_unexpectedly_off' = s.uoff
           /\ evt_lampState' = LampStateOf(s, labjack_connected /\ data.light)
           /\ hw_off_at' = IF s.basic \in {"UNEXPECTEDLY_ON", "UNEXPECTEDLY_OFF"}
                             THEN 0 ELSE hw_off_at
    /\ change_power_lock' = NoOne
    /\ data' = NoData
    /\ Resume("pending", "pending", "status", "resolve", "loop", NoArg, 0, {})
    /\ cooldown_breach' = FALSE
    /\ UNCHANGED lamp_set_voltage
    /\ UNCHANGED <<polled, labjack_connected, power_waiters, status_event,
                   lamp_on_future, lamp_off_future, lamp_ncalls>>
    /\ UNCHANGED envVars

\* set_status: what the reported basic state does to the two futures.
OnOutcome(basic) ==
    IF ~labjack_connected THEN "LostConnection"
    ELSE IF basic \in {"ON", "WARMUP"} THEN "result"
    ELSE IF basic = "UNEXPECTEDLY_OFF" THEN "LampFailedOn"
    ELSE "pending"

OffOutcome(basic) ==
    IF ~labjack_connected THEN "LostConnection"
    ELSE IF basic \in {"OFF", "COOLDOWN"} THEN "result"
    ELSE IF basic = "UNEXPECTEDLY_ON" THEN "LampFailedOff"
    ELSE "pending"

\* set_status turns the lamp controller off if the bulb is unexpectedly off.
ForceOff == lamp_unexpectedly_off /\ labjack_connected

\* set_status after the write of evt_lampState: the futures are handled;
\* then either _set_lamp_power(0) queues for the lock or the poll ends
\* (status_event is set and the loop sleeps).
ResolveFutures ==
    /\ pc["status"] = "resolve"
    /\ LET onOut == OnOutcome(evt_lampState.basicState)
           offOut == OffOutcome(evt_lampState.basicState)
       IN  /\ lamp_on_future' = Settled(lamp_on_future, onOut)
           /\ lamp_off_future' = Settled(lamp_off_future, offOut)
           /\ Resume(onOut, offOut, "status",
                     IF ForceOff THEN "lockwait" ELSE "sleep",
                     IF ForceOff THEN "forceoff" ELSE "loop", NoArg, 0, {})
    /\ IF ForceOff
         THEN /\ power_waiters' = Append(power_waiters, "status")
              /\ UNCHANGED <<status_event, polled>>
         ELSE /\ status_event' = TRUE
              /\ polled' = TRUE
              /\ UNCHANGED power_waiters
    /\ NoHwWrite
    /\ UNCHANGED <<labjack_connected, change_power_lock, lamp_unexpectedly_on,
                   lamp_unexpectedly_off, data, lamp_ncalls>>
    /\ UNCHANGED <<trackVars, envVars>>

\* set_status: _set_lamp_power(0) writes and the poll ends.
ForceOffWrites ==
    /\ LockHead("status")
    /\ op["status"] = "forceoff"
    /\ LabJackWorks
    /\ lamp_set_voltage' = 0
    /\ hw_off_at' = 0
    /\ cooldown_breach' = FALSE
    /\ power_waiters' = Tail(power_waiters)
    /\ Resume("pending", "pending", "status", "sleep", "loop", NoArg, 0, {})
    /\ status_event' = TRUE
    /\ polled' = TRUE
    /\ UNCHANGED <<labjack_connected, change_power_lock, lamp_unexpectedly_on,
                   lamp_unexpectedly_off, lamp_on_future, lamp_off_future, data,
                   lamp_ncalls>>
    /\ UNCHANGED <<trackVars, envVars>>

\* set_status: the write that turns the lamp controller off raises; the
\* exception reaches the `except Exception` of status_loop.
ForceOffFails ==
    /\ LockHead("status")
    /\ op["status"] = "forceoff"
    /\ ~LabJackWorks
    /\ StatusLoopFails(Tail(power_waiters))

\* turn_lamp_on: abort_lamp_off_future("Superseded by a turnLampOn command").
SupersedeOff_None == "pending"
SupersedeOff == "SupersededByOn"

\* turn_lamp_on after _set_lamp_power: wait_for(self.lamp_on_future,
\* max_lamp_on_delay + ONOFF_COMMAND_TIMEOUT_MARGIN).
AwaitOn(t, onF) ==
    IF onF = "pending"
      THEN [pc |-> "await_on", op |-> "on",
            dl |-> now + max_lamp_on_delay + ONOFF_COMMAND_TIMEOUT_MARGIN,
            own |-> {}]
      ELSE [pc |-> "idle", op |-> "none", dl |-> 0,
            own |-> {Rec(t, "on", IF onF \in {"result", "done"} THEN "ok" ELSE onF)}]

\* turn_lamp_off after _set_lamp_power: with wait,
\* wait_for(self.lamp_off_future,
\* max_lamp_off_delay + ONOFF_COMMAND_TIMEOUT_MARGIN).
AwaitOff(t, wait, offF) ==
    IF wait /\ offF = "pending"
      THEN [pc |-> "await_off", op |-> "off",
            dl |-> now + max_lamp_off_delay + ONOFF_COMMAND_TIMEOUT_MARGIN,
            own |-> {}]
      ELSE [pc |-> "idle", op |-> "none", dl |-> 0,
            own |-> {Rec(t, "off", IF ~wait \/ offF \in {"result", "done"}
                                     THEN "ok" ELSE offF)}]

\* A call that is refused, or returns without doing anything.
Refused(t, opname, why) ==
    /\ Resume("pending", "pending", t, "idle", "none", NoArg, 0,
              {Rec(t, opname, why)})
    /\ NoHwWrite
    /\ UNCHANGED <<power_waiters, lamp_on_future, lamp_off_future,
                   lamp_unexpectedly_on, lamp_unexpectedly_off, lamp_ncalls>>

\* _set_lamp_power(power) called by task t running opname: with the lock
\* free labjack.write runs at once (w: where the call goes on after it),
\* otherwise the task queues for the lock.
SetLampPower(t, opname, power, wait, onOut, offOut, w) ==
    IF ~LampCanAcquire
      THEN /\ Resume(onOut, offOut, t, "lockwait", opname,
                     [power |-> power, wait |-> wait], 0, {})
           /\ power_waiters' = Append(power_waiters, t)
           /\ NoHwWrite
    ELSE IF LabJackWorks
      THEN /\ Resume(onOut, offOut, t, w.pc, w.op, NoArg, w.dl, w.own)
           /\ HwWrite(voltage_from_power(power))
           /\ UNCHANGED power_waiters
    ELSE /\ Resume(onOut, offOut, t, "idle", "none", NoArg, 0,
                   {Rec(t, opname, "write_error")})
         /\ NoHwWrite
         /\ UNCHANGED power_waiters

\* turn_lamp_on up to its first suspension point.  The CSC calls it only
\* when the lamp is connected and its status was seen.
TurnLampOn(t, power) ==
    /\ pc[t] \in {"idle", "called"}
    /\ status_seen
    /\ IF lamp_on_future = "pending"
         THEN Refused(t, "on", "already_on")
       ELSE IF power < MIN_POWER \/ power > MAX_POWER
         THEN Refused(t, "on", "bad_power")
       ELSE IF get_remaining_cooldown > 0
         THEN Refused(t, "on", "cooling")
       ELSE /\ Counted
            /\ lamp_unexpectedly_on' = FALSE
            /\ lamp_off_future' = Settled(lamp_off_future, SupersedeOff)
            /\ lamp_on_future' = "pending"
            /\ SetLampPower(t, "on", power, FALSE, "pending", SupersedeOff,
                            AwaitOn(t, "pending"))
            /\ UNCHANGED lamp_unexpectedly_off
    /\ UNCHANGED <<polled, labjack_connected, change_power_lock, status_event,
                   data>>
    /\ UNCHANGED <<trackVars, envVars>>

\* turn_lamp_off: `if not self.lamp_was_on: return`.
NothingToTurnOff == lamp_was_on # "True"

\* turn_lamp_off: with remaining_warmup_duration > 0 the call raises unless
\* force is set.
RefusedWhileWarming_Never(force) == FALSE
RefusedWhileWarming(force) ==
    warmup_period - (now - lamp_on_time) > 0 /\ ~force

\* turn_lamp_off up to its first suspension point.  A call that returns at
\* `if not self.lamp_was_on` ends as "ignored" when a turn_lamp_on is
\* pending and as "noop" otherwise.
TurnLampOff(t, force, wait) ==
    /\ pc[t] \in {"idle", "called"}
    /\ status_seen
    /\ IF NothingToTurnOff
         THEN Refused(t, "off", IF lamp_on_future = "pending" THEN "ignored"
                                ELSE "noop")
       ELSE IF lamp_off_future = "pending"
         THEN /\ Counted
              /\ Resume("pending", "pending", t, "await_off_plain", "off", NoArg,
                        0, {})
              /\ NoHwWrite
              /\ UNCHANGED <<power_waiters, lamp_on_future, lamp_off_future,
                             lamp_unexpectedly_on, lamp_unexpectedly_off>>
       ELSE IF RefusedWhileWarming(force)
         THEN Refused(t, "off", "warming")
       ELSE /\ Counted
            /\ lamp_unexpectedly_off' = FALSE
            /\ lamp_on_future' = Settled(lamp_on_future, "SupersededByOff")
            /\ lamp_off_future' = "pending"
            /\ SetLampPower(t, "off", 0, wait, "SupersededByOff", "pending",
                            AwaitOff(t, wait, "pending"))
            /\ UNCHANGED lamp_unexpectedly_on
    /\ UNCHANGED <<polled, labjack_connected, change_power_lock, status_event,
                   data>>
    /\ UNCHANGED <<trackVars, envVars>>

\* turn_lamp_on: the task gets the lock and labjack.write runs.
TurnLampOnWrites(t) ==
    /\ LockHead(t)
    /\ op[t] = "on"
    /\ LabJackWorks
    /\ HwWrite(voltage_from_power(arg[t].power))
    /\ power_waiters' = Tail(power_waiters)
    /\ LET w == AwaitOn(t, lamp_on_future)
       IN  Resume("pending", "pending", t, w.pc, w.op, NoArg, w.dl, w.own)
    /\ UNCHANGED <<polled, labjack_connected, change_power_lock, status_event,
                   lamp_unexpectedly_on, lamp_unexpectedly_off, lamp_on_future,
                   lamp_off_future, data, lamp_ncalls>>
    /\ UNCHANGED <<trackVars, envVars>>

\* turn_lamp_off: the task gets the lock and labjack.write runs.
TurnLampOffWrites(t) ==
    /\ LockHead(t)
    /\ op[t] = "off"
    /\ LabJackWorks
    /\ HwWrite(0)
    /\ power_waiters' = Tail(power_waiters)
    /\ LET w == AwaitOff(t, arg[t].wait, lamp_off_future)
       IN  Resume("pending", "pending", t, w.pc, w.op, NoArg, w.dl, w.own)
    /\ UNCHANGED <<polled, labjack_connected, change_power_lock, status_event,
                   lamp_unexpectedly_on, lamp_unexpectedly_off, lamp_on_future,
                   lamp_off_future, data, lamp_ncalls>>
    /\ UNCHANGED <<trackVars, envVars>>

\* _set_lamp_power: the actor gets the lock and labjack.write raises; the
\* exception leaves turn_lamp_on / turn_lamp_off, and disconnect, as it is
\* (in the status loop: the loop ends).
LabJackWriteFails(a) ==
    /\ LockHead(a)
    /\ op[a] # "forceoff"
    /\ ~LabJackWorks
    /\ power_waiters' = Tail(power_waiters)
    /\ Resume("pending", "pending", a, IdlePc(a), IdleOp(a), NoArg, 0,
              {Rec(a, op[a], IF op[a] \in {"on", "off"} THEN "write_error"
                             ELSE "raised")})
    /\ NoHwWrite
    /\ UNCHANGED <<polled, labjack_connected, change_power_lock, status_event,
                   lamp_unexpectedly_on, lamp_unexpectedly_off, lamp_on_future,
                   lamp_off_future, data, lamp_ncalls>>
    /\ UNCHANGED <<trackVars, envVars>>

\* The task that runs LampModel.disconnect (the CSC leaving the enabled
\* state); every task runs turnLampOn / turnLampOff commands.
Disconnectors == {"t2"}

\* basic_disconnect after turn_lamp_off: both futures are aborted
\* (created: lamp_off_future is the one this turn_lamp_off just made); with
\* cancel_status_loop the status task is cancelled and status_event
\* cleared; then labjack.disconnect() is awaited.
AbortAndCancel(a, cancel, created) ==
    LET D == "Disconnecting"
        cancelled(x) == x = "status" /\ cancel
    IN  /\ lamp_on_future' = Settled(lamp_on_future, D)
        /\ lamp_off_future' = IF created THEN D ELSE Settled(lamp_off_future, D)
        /\ pc' = [x \in Actors |->
                     IF x = a THEN "disc_close"
                     ELSE IF cancelled(x) THEN "none"
                     ELSE IF Woken(x, D, D) # "pending"
                       THEN ResumePc(x, Woken(x, D, D))
                     ELSE pc[x]]
        /\ op' = [x \in Actors |->
                     IF x = a THEN IF cancel THEN "disconnect" ELSE "faildisc"
                     ELSE IF cancelled(x) \/ Ends(x, D, D) THEN IdleOp(x)
                     ELSE op[x]]
        /\ arg' = [x \in Actors |->
                     IF x = a \/ cancelled(x) THEN NoArg ELSE arg[x]]
        /\ deadline' = [x \in Actors |->
                     IF x = a \/ Woken(x, D, D) # "pending" THEN 0
                     ELSE deadline[x]]
        /\ ended' = {Rec(x, op[x], ResumeResult(x, D)) :
                        x \in {y \in Actors \ {a} :
                                  ~cancelled(y) /\ Ends(y, D, D)}}
        /\ seen' = [t \in Tasks |->
                     IF t = a \/ Ends(t, D, D) THEN "none" ELSE seen[t]]
        /\ change_power_lock' =
               IF cancel /\ change_power_lock = "status" THEN NoOne
               ELSE change_power_lock
        /\ power_waiters' =
               SelectSeq(power_waiters, LAMBDA x : x # a /\ ~cancelled(x))
        /\ status_event' = (status_event /\ ~cancel)
        /\ polled' = (polled /\ ~cancel)
        /\ data' = IF cancel THEN NoData ELSE data

\* LampModel.disconnect() up to its first suspension point: basic_disconnect
\* calls turn_lamp_off(force=True, wait=False), which returns at once,
\* awaits a pending lamp_off_future, or makes a new lamp_off_future and
\* writes power 0.
Disconnect(t) ==
    /\ t \in Disconnectors
    /\ pc[t] \in {"idle", "called"}
    /\ labjack_connected
    /\ Counted
    /\ IF NothingToTurnOff
         THEN /\ AbortAndCancel(t, TRUE, FALSE)
              /\ NoHwWrite
              /\ UNCHANGED lamp_unexpectedly_off
       ELSE IF lamp_off_future = "pending"
         THEN /\ Resume("pending", "pending", t, "await_off_plain", "disconnect",
                        NoArg, 0, {})
              /\ NoHwWrite
              /\ UNCHANGED <<lamp_on_future, lamp_off_future,
                             lamp_unexpectedly_off, change_power_lock,
                             power_waiters, status_event, polled, data>>
       ELSE IF ~LampCanAcquire
         THEN /\ lamp_unexpectedly_off' = FALSE
              /\ lamp_on_future' = Settled(lamp_on_future, "Disconnecting")
              /\ lamp_off_future' = "pending"
              /\ Resume("Disconnecting", "pending", t, "lockwait", "disconnect",
                        NoArg, 0, {})
              /\ power_waiters' = Append(power_waiters, t)
              /\ NoHwWrite
              /\ UNCHANGED <<change_power_lock, status_event, polled, data>>
       ELSE IF LabJackWorks
         THEN /\ lamp_unexpectedly_off' = FALSE
              /\ HwWrite(0)
              /\ AbortAndCancel(t, TRUE, TRUE)
       ELSE /\ lamp_unexpectedly_off' = FALSE
            /\ lamp_on_future' = Settled(lamp_on_future, "Disconnecting")
            /\ lamp_off_future' = "pending"
            /\ Resume("Disconnecting", "pending", t, "idle", "none", NoArg, 0,
                      {Rec(t, "disconnect", "raised")})
            /\ NoHwWrite
            /\ UNCHANGED <<change_power_lock, power_waiters, status_event,
                           polled, data>>
    /\ UNCHANGED <<labjack_connected, lamp_unexpectedly_on>>
    /\ UNCHANGED <<trackVars, envVars>>

\* basic_disconnect: the turn_lamp_off it called gets the lock and writes
\* power 0.
DisconnectWrites(a) ==
    /\ LockHead(a)
    /\ op[a] \in {"disconnect", "faildisc"}
    /\ LabJackWorks
    /\ HwWrite(0)
    /\ AbortAndCancel(a, op[a] = "disconnect", FALSE)
    /\ UNCHANGED <<labjack_connected, lamp_unexpectedly_on,
                   lamp_unexpectedly_off, lamp_ncalls>>
    /\ UNCHANGED <<trackVars, envVars>>

\* basic_disconnect: the lamp_off_future its turn_lamp_off awaited has a
\* result.
DisconnectResumes(t) ==
    /\ pc[t] = "disc_abort"
    /\ AbortAndCancel(t, TRUE, FALSE)
    /\ NoHwWrite
    /\ UNCHANGED <<labjack_connected, lamp_unexpectedly_on,
                   lamp_unexpectedly_off, lamp_ncalls>>
    /\ UNCHANGED <<trackVars, envVars>>

\* basic_disconnect after labjack.disconnect(): set_status reports the
\* disconnected state and aborts both futures; disconnect returns (in the
\* status loop: the loop re-raises and ends).
DisconnectCloses(a) ==
    /\ pc[a] = "disc_close"
    /\ labjack_connected' = FALSE
    /\ evt_lampState' = LampStateOf(ClassifyDisconnected, FALSE)
    /\ lamp_on_future' = Settled(lamp_on_future, "LostConnection")
    /\ lamp_off_future' = Settled(lamp_off_future, "LostConnection")
    /\ Resume("LostConnection", "LostConnection", a, IdlePc(a), IdleOp(a),
              NoArg, 0, {Rec(a, op[a], "ok")})
    /\ NoHwWrite
    /\ UNCHANGED <<polled, change_power_lock, power_waiters, status_event,
                   lamp_was_on, lamp_on_time, lamp_off_time,
                   lamp_unexpectedly_on, lamp_unexpectedly_off, data,
                   lamp_ncalls>>
    /\ UNCHANGED envVars

\* wait_for in turn_lamp_on / turn_lamp_off times out: it cancels the
\* future it waits for and raises TimeoutError.  The status loop polls
\* several times a second, so the poll of an instant comes first.
AwaitTimeout(t) ==
    /\ pc[t] \in {"await_on", "await_off"}
    /\ deadline[t] <= now
    /\ StatusAtRest
    /\ LET onOut == IF pc[t] = "await_on" THEN "cancelled" ELSE "pending"
           offOut == IF pc[t] = "await_off" THEN "cancelled" ELSE "pending"
       IN  /\ lamp_on_future' = Settled(lamp_on_future, onOut)
           /\ lamp_off_future' = Settled(lamp_off_future, offOut)
           /\ Resume(onOut, offOut, t, "idle", "none", NoArg, 0,
                     {Rec(t, op[t], "timeout")})
    /\ NoHwWrite
    /\ UNCHANGED <<polled, labjack_connected, change_power_lock, power_waiters,
                   status_event, lamp_unexpectedly_on, lamp_unexpectedly_off,
                   data, lamp_ncalls>>
    /\ UNCHANGED <<trackVars, envVars>>

\* One second passes.  Whatever takes a fraction of a second (a poll, a
\* LabJack read or write) is over, and timeouts that are due have fired.
Tick ==
    /\ now < MaxTime
    /\ StatusAtRest
    /\ LampCanAcquire
    /\ \A t \in Tasks :
          /\ pc[t] \in {"idle", "await_on", "await_off", "await_off_plain"}
          /\ pc[t] \in {"await_on", "await_off"} => deadline[t] > now
    /\ now' = now + 1
    /\ polled' = FALSE
    /\ ended' = {}
    /\ cooldown_breach' = FALSE
    /\ hw_off_at' = IF hw_off_at # 0 /\ now + 1 - hw_off_at >= cooldown_period
                      THEN 0 ELSE hw_off_at
    /\ lamp_on_future' = Forget(lamp_on_future)
    /\ lamp_off_future' = Forget(lamp_off_future)
    /\ UNCHANGED <<labjack_connected, labjack_ok, lamp_set_voltage, photosensor,
                   change_power_lock, power_waiters, status_event,
                   lamp_unexpectedly_on, lamp_unexpectedly_off, data, pc, op,
                   arg, deadline, seen, lamp_ncalls>>
    /\ UNCHANGED <<trackVars, chillerVars, cscVars, cmVars>>

\* What the environment does leaves the model alone.
modelVars == <<now, polled, labjack_connected, change_power_lock,
               power_waiters, status_event, lamp_unexpectedly_on,
               lamp_unexpectedly_off, lamp_on_future, lamp_off_future, data,
               pc, op, arg, deadline, seen, lamp_set_voltage, hw_off_at,
               lamp_ncalls, trackVars, chillerVars, cscVars, cmVars>>

\* The bulb lights: only a lamp that is commanded on can ignite.  The
\* photo sensor changes between two polls.
LightOn ==
    /\ pc["status"] \in {"sleep", "none"}
    /\ lamp_set_voltage > 0
    /\ ~photosensor
    /\ photosensor' = TRUE
    /\ ended' = {}
    /\ cooldown_breach' = FALSE
    /\ UNCHANGED <<labjack_ok, modelVars>>

\* The bulb goes dark: it was commanded off, or it failed.
LightOff ==
    /\ pc["status"] \in {"sleep", "none"}
    /\ photosensor
    /\ photosensor' = FALSE
    /\ ended' = {}
    /\ cooldown_breach' = FALSE
    /\ UNCHANGED <<labjack_ok, modelVars>>

\* The LabJack stops answering: reads and writes raise from now on.
LabJackBreaks ==
    /\ labjack_connected
    /\ labjack_ok
    /\ labjack_ok' = FALSE
    /\ ended' = {}
    /\ cooldown_breach' = FALSE
    /\ UNCHANGED <<photosensor, modelVars>>

\* The lamp in use: two command handlers turn it on and off while the
\* status loop polls; the LabJack works and stays connected.
LampNext ==
    \/ Connect
    \/ StatusPoll
    \/ SetStatus
    \/ ResolveFutures
    \/ ForceOffWrites
    \/ \E t \in Tasks : \E power \in Powers : TurnLampOn(t, power)
    \/ \E t \in Tasks : \E force \in BOOLEAN : \E wait \in BOOLEAN :
          TurnLampOff(t, force, wait)
    \/ \E t \in Tasks : TurnLampOnWrites(t)
    \/ \E t \in Tasks : TurnLampOffWrites(t)
    \/ \E t \in Tasks : AwaitTimeout(t)
    \/ Tick
    \/ LightOn
    \/ LightOff

\* The lamp with one command handler: it turns the lamp on at MIN_POWER
\* and off while the status loop polls; the LabJack works and stays
\* connected.
LampOneNext ==
    \/ Connect
    \/ StatusPoll
    \/ SetStatus
    \/ ResolveFutures
    \/ ForceOffWrites
    \/ TurnLampOn("t1", MIN_POWER)
    \/ \E force \in BOOLEAN : \E wait \in BOOLEAN :
          TurnLampOff("t1", force, wait)
    \/ TurnLampOnWrites("t1")
    \/ TurnLampOffWrites("t1")
    \/ AwaitTimeout("t1")
    \/ Tick
    \/ LightOn
    \/ LightOff

\* One command handler that turns the lamp on at either end of the power
\* range, also while it is on, and turns it off.
LampPowerNext ==
    \/ Connect
    \/ StatusPoll
    \/ SetStatus
    \/ ResolveFutures
    \/ ForceOffWrites
    \/ \E power \in {MIN_POWER, MAX_POWER} : TurnLampOn("t1", power)
    \/ \E wait \in BOOLEAN : TurnLampOff("t1", TRUE, wait)
    \/ TurnLampOnWrites("t1")
    \/ TurnLampOffWrites("t1")
    \/ AwaitTimeout("t1")
    \/ Tick
    \/ LightOn
    \/ LightOff

\* The lamp with a LabJack that may stop answering and a CSC that
\* disconnects and reconnects: one command handler turns the lamp on and
\* off, the other task disconnects.
LampFaultNext ==
    \/ Connect
    \/ StatusPoll
    \/ LabJackReadFails
    \/ SetStatus
    \/ ResolveFutures
    \/ ForceOffWrites
    \/ ForceOffFails
    \/ \E t \in Tasks \ Disconnectors : TurnLampOn(t, MIN_POWER)
    \/ \E t \in Tasks \ Disconnectors : \E wait \in BOOLEAN :
          TurnLampOff(t, TRUE, wait)
    \/ \E t \in Tasks : TurnLampOnWrites(t)
    \/ \E t \in Tasks : TurnLampOffWrites(t)
    \/ \E a \in Actors : LabJackWriteFails(a)
    \/ \E t \in Tasks : Disconnect(t)
    \/ \E a \in Actors : DisconnectWrites(a)
    \/ \E t \in Tasks : DisconnectResumes(t)
    \/ \E a \in Actors : DisconnectCloses(a)
    \/ \E t \in Tasks : AwaitTimeout(t)
    \/ Tick
    \/ LightOn
    \/ LightOff
    \/ LabJackBreaks

(***************************************************************************)
(* Part 3: ATWhiteLightCsc                                                 *)
(*                                                                         *)
(* The CSC on top of the lamp model and the chiller's published watchdog.  *)
(* Task t1 runs the turnLampOn, turnLampOff, startChiller and stopChiller  *)
(* commands; task t2 runs the state transitions: the commands that change  *)
(* the summary state, and fault() with the handle_summary_state that       *)
(* follows it.  A task at "called" has run the CSC's part of a handler and *)
(* calls the lamp model next.                                              *)
(***************************************************************************)

\* What the chiller's watchdog reports: idle, cooling, cooling with the
\* pump stopped, cooling with an alarm.
ChillerStandby ==
    [controllerState |-> "STANDBY", pumpRunning |-> FALSE, alarmsPresent |-> FALSE]
ChillerRunning ==
    [controllerState |-> "RUN", pumpRunning |-> TRUE, alarmsPresent |-> FALSE]
ChillerPumpOff ==
    [controllerState |-> "RUN", pumpRunning |-> FALSE, alarmsPresent |-> FALSE]
ChillerAlarm ==
    [controllerState |-> "RUN", pumpRunning |-> TRUE, alarmsPresent |-> TRUE]
WatchdogStates == {ChillerStandby, ChillerRunning, ChillerPumpOff, ChillerAlarm}

\* config.lamp.default_power, used when turnLampOn has power = 0.
default_power == MIN_POWER

\* The power argument of the turnLampOn commands that are sent.
CscPowers == {0}

\* The CSC is followed up to this time.
MaxCscTime == 5

CscInit ==
    /\ summary_state = "STANDBY"
    /\ should_be_connected = FALSE
    /\ chiller_configured = FALSE
    /\ chiller_watchdog = ChillerStandby

lamp_connected == status_seen
chiller_connected == chiller_configured

\* A step of the CSC that writes nothing to the LabJack and leaves the lamp
\* model's own state alone.
CscLampFrame ==
    /\ cooldown_breach' = FALSE
    /\ UNCHANGED <<now, polled, labjack_connected, labjack_ok, lamp_set_voltage,
                   photosensor, change_power_lock, power_waiters, status_event,
                   lamp_unexpectedly_on, lamp_unexpectedly_off, lamp_on_future,
                   lamp_off_future, data, deadline, seen, hw_off_at,
                   lamp_ncalls, trackVars, chillerVars, cmVars>>

\* The handler of task t goes on to call the lamp model.
CscCall(t, o, a, own) ==
    /\ pc' = [pc EXCEPT ![t] = "called"]
    /\ op' = [op EXCEPT ![t] = o]
    /\ arg' = [arg EXCEPT ![t] = a]
    /\ ended' = own
    /\ CscLampFrame

\* The handler of task t returns, or raises, without calling the lamp model.
CscReturn(t, own) ==
    /\ pc' = [pc EXCEPT ![t] = "idle"]
    /\ op' = [op EXCEPT ![t] = "none"]
    /\ arg' = [arg EXCEPT ![t] = NoArg]
    /\ ended' = own
    /\ CscLampFrame

\* A step of the CSC in no task of the model.
CscStep ==
    /\ ended' = {}
    /\ UNCHANGED <<pc, op, arg>>
    /\ CscLampFrame

\* status_callback: the error code it goes to FAULT with, "NONE" when it
\* returns without a fault.  configured and wd are the chiller's state when
\* the callback runs, err says that the lamp controller reports an error.
status_callback(configured, wd, err) ==
    IF summary_state = "FAULT" THEN "NONE"
    ELSE IF ~should_be_connected THEN "NONE"
    ELSE IF ~lamp_connected THEN "LAMP_DISCONNECTED"
    ELSE IF ~configured THEN "CHILLER_DISCONNECTED"
    ELSE IF err THEN "LAMP_ERROR"
    ELSE IF evt_lampState.basicState = "UNEXPECTEDLY_ON"
      THEN "LAMP_UNEXPECTEDLY_ON"
    ELSE IF evt_lampState.basicState = "UNEXPECTEDLY_OFF"
      THEN "LAMP_UNEXPECTEDLY_OFF"
    ELSE IF wd.alarmsPresent THEN "CHILLER_ERROR"
    ELSE IF lamp_was_on = "True" /\ wd.controllerState # "RUN"
      THEN "NOT_CHILLING_WITH_LAMP_ON"
    ELSE IF lamp_was_on = "True" /\ ~wd.pumpRunning
      THEN "NOT_CHILLING_WITH_LAMP_ON"
    ELSE "NONE"

\* fault(code): the summary state becomes FAULT, the error code is
\* published (with the state the CSC was in), and handle_summary_state runs
\* in the task that called fault.
fault(code) ==
    /\ pc["t2"] = "idle"
    /\ summary_state' = "FAULT"
    /\ CscCall("t2", "fault", NoArg, {Rec("t2", summary_state, code)})

\* The status callback runs with the chiller state (configured, wd).
CallStatusCallback(configured, wd, err) ==
    IF status_callback(configured, wd, err) = "NONE"
      THEN /\ UNCHANGED summary_state
           /\ CscStep
      ELSE fault(status_callback(configured, wd, err))

\* A state transition is being handled: handle_summary_state runs up to
\* its first call of the lamp model without giving up the event loop.
Handling == pc["t2"] = "called"

\* The start command: STANDBY -> DISABLED; handle_summary_state connects
\* the chiller, which reads its first watchdog.
DoStart ==
    /\ summary_state = "STANDBY"
    /\ pc["t2"] = "idle"
    /\ ~chiller_configured
    /\ ~labjack_connected
    /\ summary_state' = "DISABLED"
    /\ chiller_configured' = TRUE
    /\ \E wd \in WatchdogStates : chiller_watchdog' = wd
    /\ UNCHANGED should_be_connected
    /\ CscStep

\* handle_summary_state, disabled or enabled: the lamp is not connected, so
\* connect_lamp is called.
ConnectLamp ==
    /\ summary_state \in {"DISABLED", "ENABLED"}
    /\ chiller_configured
    /\ ~should_be_connected
    /\ Connect

\* handle_summary_state, disabled or enabled: connect_lamp returned, the
\* lamp model has seen status.
LampIsConnected ==
    /\ summary_state \in {"DISABLED", "ENABLED"}
    /\ chiller_configured
    /\ ~should_be_connected
    /\ lamp_connected
    /\ should_be_connected' = TRUE
    /\ UNCHANGED <<summary_state, chiller_configured, chiller_watchdog>>
    /\ CscStep

\* The enable command: DISABLED -> ENABLED; handle_summary_state goes to
\* FAULT if the chiller reports alarms.
DoEnable ==
    /\ summary_state = "DISABLED"
    /\ should_be_connected
    /\ chiller_connected
    /\ lamp_connected
    /\ IF chiller_watchdog.alarmsPresent
         THEN fault("CHILLER_ERROR")
         ELSE /\ summary_state' = "ENABLED"
              /\ CscStep
    /\ UNCHANGED <<should_be_connected, chiller_configured, chiller_watchdog>>

\* The disable command: ENABLED -> DISABLED; handle_summary_state finds
\* both devices connected.
DoDisable ==
    /\ summary_state = "ENABLED"
    /\ should_be_connected
    /\ chiller_connected
    /\ lamp_connected
    /\ summary_state' = "DISABLED"
    /\ UNCHANGED <<should_be_connected, chiller_configured, chiller_watchdog>>
    /\ CscStep

\* begin_standby raises: in FAULT the lamp controller reports an error or
\* the chiller reports alarms; in any state the lamp is cooling down.
StandbyRefused_NoCooldown(err) ==
    /\ summary_state = "FAULT"
    /\ \/ lamp_connected /\ err
       \/ chiller_connected /\ chiller_watchdog.alarmsPresent
StandbyRefused(err) ==
    \/ /\ summary_state = "FAULT"
       /\ \/ lamp_connected /\ err
          \/ chiller_connected /\ chiller_watchdog.alarmsPresent
    \/ lamp_connected /\ get_remaining_cooldown > 0

\* The standby command, from DISABLED or FAULT.  If begin_standby raises
\* the state stays; else the state is STANDBY and handle_summary_state
\* clears should_be_connected and goes on to disconnect.
DoStandby(err) ==
    /\ summary_state \in {"DISABLED", "FAULT"}
    /\ pc["t2"] = "idle"
    /\ IF StandbyRefused(err)
         THEN /\ UNCHANGED <<summary_state, should_be_connected>>
              /\ CscReturn("t2", {Rec("t2", "standby", "rejected")})
         ELSE /\ summary_state' = "STANDBY"
              /\ should_be_connected' = FALSE
              /\ CscCall("t2", "standby", NoArg, {})
    /\ UNCHANGED <<chiller_configured, chiller_watchdog>>

\* handle_summary_state in FAULT: with lamp_was_on set and the lamp
\* connected it calls turn_lamp_off(force=True, wait=False); else it
\* only logs.
FaultTurnsLampOff ==
    /\ pc["t2"] = "called"
    /\ op["t2"] = "fault"
    /\ IF lamp_was_on = "True" /\ lamp_connected
         THEN TurnLampOff("t2", TRUE, FALSE)
         ELSE /\ CscReturn("t2", {})
              /\ UNCHANGED cscVars

\* handle_summary_state in STANDBY: disconnect_lamp.  The turn_lamp_off
\* before it is the call basic_disconnect makes first.
StandbyDisconnectsLamp ==
    /\ pc["t2"] = "called"
    /\ op["t2"] = "standby"
    /\ IF labjack_connected
         THEN Disconnect("t2")
         ELSE /\ CscReturn("t2", {})
              /\ UNCHANGED cscVars

\* handle_summary_state in STANDBY: disconnect_chiller, after the lamp is
\* disconnected.  The chiller's status callback finds should_be_connected
\* cleared.
StandbyDisconnectsChiller ==
    /\ summary_state = "STANDBY"
    /\ pc["t2"] = "idle"
    /\ ~labjack_connected
    /\ chiller_configured
    /\ chiller_configured' = FALSE
    /\ UNCHANGED <<summary_state, should_be_connected, chiller_watchdog>>
    /\ CscStep

\* handle_watchdog: the watchdog record changed, it is published and the
\* status callback is called.
ChillerReports(wd) ==
    /\ chiller_configured
    /\ wd # chiller_watchdog
    /\ chiller_watchdog' = wd
    /\ CallStatusCallback(chiller_configured, wd, FALSE)
    /\ UNCHANGED <<should_be_connected, chiller_configured>>

\* ChillerModel.disconnect() is called while the CSC is connected:
\* configured is cleared and the status callback is called.
ChillerDisconnects ==
    /\ chiller_configured
    /\ should_be_connected
    /\ chiller_configured' = FALSE
    /\ CallStatusCallback(FALSE, chiller_watchdog, FALSE)
    /\ UNCHANGED <<should_be_connected, chiller_watchdog>>

\* set_status of the lamp model published a change and calls the status
\* callback, which goes to FAULT.
LampCallback(err) ==
    /\ StatusAtRest
    /\ status_callback(chiller_configured, chiller_watchdog, err) # "NONE"
    /\ fault(status_callback(chiller_configured, chiller_watchdog, err))
    /\ UNCHANGED <<should_be_connected, chiller_configured, chiller_watchdog>>

\* do_turnLampOn goes on to turn the lamp on: the CSC is enabled, the lamp
\* and the chiller are connected, and the chiller reports no alarm, the
\* RUN state and a running pump.
TurnLampOnAllowed_NoChiller ==
    /\ summary_state = "ENABLED"
    /\ lamp_connected
TurnLampOnAllowed ==
    /\ summary_state = "ENABLED"
    /\ lamp_connected
    /\ chiller_connected
    /\ ~chiller_watchdog.alarmsPresent
    /\ chiller_watchdog.controllerState = "RUN"
    /\ chiller_watchdog.pumpRunning

\* do_turnLampOn up to ack_in_progress.
DoTurnLampOn(t, power) ==
    /\ pc[t] = "idle"
    /\ IF TurnLampOnAllowed
         THEN CscCall(t, "turnLampOn",
                      [power |-> IF power = 0 THEN default_power ELSE power,
                       wait |-> FALSE], {})
         ELSE CscReturn(t, {Rec(t, "turnLampOn", "rejected")})
    /\ UNCHANGED cscVars

\* do_turnLampOn after ack_in_progress: lamp_model.turn_lamp_on(power).
CscTurnLampOn(t) ==
    /\ pc[t] = "called"
    /\ op[t] = "turnLampOn"
    /\ IF lamp_connected
         THEN TurnLampOn(t, arg[t].power)
         ELSE /\ CscReturn(t, {Rec(t, "turnLampOn", "raised")})
              /\ UNCHANGED cscVars

\* do_turnLampOff up to ack_in_progress.
DoTurnLampOff(t, force) ==
    /\ pc[t] = "idle"
    /\ IF summary_state = "ENABLED" /\ lamp_connected
         THEN CscCall(t, IF force THEN "turnLampOffForce" ELSE "turnLampOff",
                      NoArg, {})
         ELSE CscReturn(t, {Rec(t, "turnLampOff", "rejected")})
    /\ UNCHANGED cscVars

\* do_turnLampOff after ack_in_progress:
\* lamp_model.turn_lamp_off(force=data.force, wait=True).
CscTurnLampOff(t) ==
    /\ pc[t] = "called"
    /\ op[t] \in {"turnLampOff", "turnLampOffForce"}
    /\ IF lamp_connected
         THEN TurnLampOff(t, op[t] = "turnLampOffForce", TRUE)
         ELSE /\ CscReturn(t, {Rec(t, "turnLampOff", "raised")})
              /\ UNCHANGED cscVars

\* do_stopChiller raises: with the lamp connected, lamp_was_on is set or
\* the lamp is cooling down.
StopChillerRefused ==
    /\ lamp_connected
    /\ \/ lamp_was_on = "True"
       \/ get_remaining_cooldown > 0

\* do_stopChiller, in a task of its own (the handler does not call the
\* lamp model): stop_cooling is sent unless the command is rejected.
DoStopChiller ==
    /\ ended' = {Rec("csc", "stopChiller",
                     IF summary_state # "ENABLED" \/ ~chiller_connected
                       THEN "rejected"
                     ELSE IF StopChillerRefused THEN "rejected"
                     ELSE "ok")}
    /\ UNCHANGED <<pc, op, arg>>
    /\ CscLampFrame
    /\ UNCHANGED cscVars

\* The CSC in use: it is started, enabled, disabled and sent to standby,
\* commands turn the lamp on and off and stop the chiller, the chiller's
\* watchdog changes and the chiller disconnects.  The LabJack works and
\* the bulb goes dark only with the register at 0, so that the status loop
\* settles the futures before a wait_for times out.  Time is followed
\* from the first call of the lamp model, and the CSC is not started again
\* after it.
CscNext ==
    \/ ~Handling /\ lamp_ncalls = 0 /\ DoStart
    \/ ~Handling /\ ConnectLamp
    \/ ~Handling /\ LampIsConnected
    \/ ~Handling /\ DoEnable
    \/ ~Handling /\ DoDisable
    \/ ~Handling /\ \E err \in BOOLEAN : DoStandby(err)
    \/ FaultTurnsLampOff
    \/ StandbyDisconnectsLamp
    \/ ~Handling /\ StandbyDisconnectsChiller
    \/ ~Handling /\ \E wd \in WatchdogStates : ChillerReports(wd)
    \/ ~Handling /\ ChillerDisconnects
    \/ ~Handling /\ \E err \in BOOLEAN : LampCallback(err)
    \/ ~Handling /\ \E power \in CscPowers : DoTurnLampOn("t1", power)
    \/ ~Handling /\ CscTurnLampOn("t1")
    \/ ~Handling /\ \E force \in BOOLEAN : DoTurnLampOff("t1", force)
    \/ ~Handling /\ CscTurnLampOff("t1")
    \/ ~Handling /\ DoStopChiller
    \/ ~Handling /\ StatusPoll
    \/ ~Handling /\ SetStatus
    \/ ~Handling /\ ResolveFutures
    \/ ~Handling /\ ForceOffWrites
    \/ ~Handling /\ \E t \in Tasks : TurnLampOnWrites(t)
    \/ ~Handling /\ \E t \in Tasks : TurnLampOffWrites(t)
    \/ ~Handling /\ \E a \in Actors : DisconnectWrites(a)
    \/ ~Handling /\ \E t \in Tasks : DisconnectResumes(t)
    \/ ~Handling /\ \E a \in Actors : DisconnectCloses(a)
    \/ lamp_ncalls > 0 /\ now < MaxCscTime /\ Tick
    \/ ~Handling /\ LightOn
    \/ ~Handling /\ lamp_set_voltage = 0 /\ LightOff

(***************************************************************************)
(* Part 4: ChillerModel, the replies it handles and its periodic loops.   *)
(***************************************************************************)

\* The fans of the chiller (FAN_NUMBERS).
FAN_NUMBERS == {1, 2, 3, 4}

\* The number of temperature fields the telemetry loop reads
\* (READ_RETURN_TEMPERATURE is False).
NUM_READ_TEMPERATURES == 3

\* The temperature fields whose read command the telemetry loop issues.
TemperatureFields ==
    {"setTemperature", "supplyTemperature", "ambientTemperature"}

\* The fields of tel_chillerTECBankCurrents.
TecBankFields == {"bank1", "bank2"}

\* The fields of evt_chillerAlarms.
AlarmFields == {"level1", "level21", "level22"}

\* The topics that are written once all of their fields were seen, each with
\* the fields it waits for.
ExpectedFields ==
    [tel_chillerFanSpeeds       |-> FAN_NUMBERS,
     tel_chillerTemperatures    |-> TemperatureFields,
     tel_chillerTECBankCurrents |-> TecBankFields,
     evt_chillerAlarms          |-> AlarmFields]

GroupTopics == DOMAIN ExpectedFields

\* A topic written in a step, with the fields handled since its last write.
Written(topic, fields) == [topic |-> topic, fields |-> fields]

\* Bookkeeping of a handler that sets one field of a topic and writes the
\* topic or not.
FieldHandled(topic, field, wrote) ==
    /\ written' = IF wrote
                    THEN {Written(topic, since_write[topic] \cup {field})}
                    ELSE {}
    /\ since_write' = [since_write EXCEPT
                         ![topic] = IF wrote THEN {} ELSE @ \cup {field}]

\* ChillerModel.handle_read_fan_speed
handle_read_fan_speed(fan_num) ==
    LET now_seen == seen_fan_speeds \cup {fan_num}
        do_write == Cardinality(now_seen) = Cardinality(FAN_NUMBERS)
    IN  /\ seen_fan_speeds' = IF do_write THEN {} ELSE now_seen
        /\ FieldHandled("tel_chillerFanSpeeds", fan_num, do_write)
        /\ UNCHANGED <<seen_temperatures, seen_tec_bank_currents, seen_alarms>>

\* handle_read_temperature writing the topic as soon as two fields were seen.
handle_read_temperature_Two(field_name) ==
    LET now_seen == seen_temperatures \cup {field_name}
        do_write == Cardinality(now_seen) = NUM_READ_TEMPERATURES - 1
    IN  /\ seen_temperatures' = IF do_write THEN {} ELSE now_seen
        /\ FieldHandled("tel_chillerTemperatures", field_name, do_write)
        /\ UNCHANGED <<seen_fan_speeds, seen_tec_bank_currents, seen_alarms>>

\* ChillerModel.handle_read_temperature
handle_read_temperature(field_name) ==
    LET now_seen == seen_temperatures \cup {field_name}
        do_write == Cardinality(now_seen) = NUM_READ_TEMPERATURES
    IN  /\ seen_temperatures' = IF do_write THEN {} ELSE now_seen
        /\ FieldHandled("tel_chillerTemperatures", field_name, do_write)
        /\ UNCHANGED <<seen_fan_speeds, seen_tec_bank_currents, seen_alarms>>

\* ChillerModel.handle_read_tec_bank_currents
handle_read_tec_bank_currents(field_name) ==
    LET now_seen == seen_tec_bank_currents \cup {field_name}
        do_write == Cardinality(now_seen) >= 2
    IN  /\ seen_tec_bank_currents' = IF do_write THEN {} ELSE now_seen
        /\ FieldHandled("tel_chillerTECBankCurrents", field_name, do_write)
        /\ UNCHANGED <<seen_fan_speeds, seen_temperatures, seen_alarms>>

\* ChillerModel.handle_read_l1_alarms and handle_read_l2_alarms: field is
\* "level1", or "level21" or "level22" by the sublevel in the reply.
handle_read_alarms(field) ==
    LET now_seen == seen_alarms \cup {field}
        do_write == Cardinality(now_seen) = 3
    IN  /\ seen_alarms' = IF do_write THEN {} ELSE now_seen
        /\ FieldHandled("evt_chillerAlarms", field, do_write)
        /\ UNCHANGED <<seen_fan_speeds, seen_temperatures,
                       seen_tec_bank_currents>>

\* reset_seen leaving the temperatures seen so far in place.
reset_seen_KeepTemperatures ==
    /\ seen_alarms' = {}
    /\ seen_fan_speeds' = {}
    /\ seen_tec_bank_currents' = {}
    /\ seen_temperatures' = seen_temperatures
    /\ since_write' = [topic \in GroupTopics |-> {}]
    /\ written' = {}

\* ChillerModel.reset_seen
reset_seen ==
    /\ seen_alarms' = {}
    /\ seen_fan_speeds' = {}
    /\ seen_tec_bank_currents' = {}
    /\ seen_temperatures' = {}
    /\ since_write' = [topic \in GroupTopics |-> {}]
    /\ written' = {}

\* The frame of a step that only handles a reply.
SeenFrame ==
    UNCHANGED <<chillerVars, lampVars, cscVars, loopVars, protoVars,
                lampMoreVars>>

\* The handlers of the telemetry groups applied to field replies in any
\* order, with repeats.
SeenNext ==
    \/ \E fan_num \in FAN_NUMBERS :
          handle_read_fan_speed(fan_num) /\ SeenFrame
    \/ \E field_name \in TemperatureFields :
          handle_read_temperature(field_name) /\ SeenFrame
    \/ \E field_name \in TecBankFields :
          handle_read_tec_bank_currents(field_name) /\ SeenFrame
    \/ reset_seen /\ SeenFrame

SeenInit ==
    /\ seen_fan_speeds = {}
    /\ seen_temperatures = {}
    /\ seen_tec_bank_currents = {}
    /\ seen_alarms = {}
    /\ since_write = [topic \in GroupTopics |-> {}]
    /\ written = {}


\* The tasks that run chiller commands: the two loops and the CSC, which
\* runs connect() and later start_cooling().
CmTasks == {"watchdog", "telemetry", "csc"}
LoopTasks == {"watchdog", "telemetry"}

\* The run_command calls a run makes at most.
MaxCmCalls == 7

\* The commands of one cycle of telemetry_loop, in its order.
TelemetryCommands ==
    <<"03rSetTemp", "04rSupplyT", "08rAmbTemp", "09rProsFlo",
      "50rFanSpd1", "51rFanSpd2", "52rFanSpd3", "53rFanSpd4",
      "13rTECB2Cr", "10rTECB1Cr", "11rTECDrLv">>

\* The commands of the CSC task: do_watchdog() of connect(), then
\* do_set_chiller_status(1) and do_watchdog() of start_cooling().
CscCommands == <<"01WatchDog", "15sStatus_1", "01WatchDog">>

\* The flags of a watchdog reply that decide the follow-up reads.
WatchdogData == [alarmsPresent : BOOLEAN, warningsPresent : BOOLEAN]

\* The follow-up reads of handle_watchdog, by its position.
CascadeCommands ==
    [l1 |-> "18rAlrmLv1", l21 |-> "19rAlrmLv21", l22 |-> "19rAlrmLv22",
     warn |-> "20rWarnLv1"]

\* A call of handle_watchdog: where it is, what set_write returned, the
\* follow-up reads it issued, the writes of evt_chillerAlarms since it
\* began and the reads it had issued at the last of them.
Frame(wd_data, did_change) ==
    [pos |-> IF wd_data.alarmsPresent THEN "l1"
             ELSE IF wd_data.warningsPresent THEN "warn" ELSE "end",
     did_change |-> did_change,
     alarmsPresent |-> wd_data.alarmsPresent,
     warningsPresent |-> wd_data.warningsPresent,
     reads |-> <<>>,
     writes |-> IF wd_data.alarmsPresent THEN 0 ELSE 1,
     write_reads |-> 0]

Top(t) == stack[t][Len(stack[t])]
Pop(t) == SubSeq(stack[t], 1, Len(stack[t]) - 1)
ReplaceTop(t, f) == [stack[t] EXCEPT ![Len(stack[t])] = f]

\* The position of handle_watchdog after the read at pos returned.
NextPos(f) ==
    CASE f.pos = "l1" -> "l21"
      [] f.pos = "l21" -> "l22"
      [] f.pos = "l22" -> IF f.warningsPresent THEN "warn" ELSE "end"
      [] OTHER -> "end"

\* The command a task issues next.
NextCommand(t) ==
    IF stack[t] # <<>> THEN CascadeCommands[Top(t).pos]
    ELSE IF t = "watchdog" THEN "01WatchDog"
    ELSE IF t = "telemetry" THEN TelemetryCommands[loop_index[t]]
    ELSE CscCommands[loop_index[t]]

\* ERROR_CODES: the meaning of the error digit of a reply.
ERROR_CODES ==
    "0" :> "" @@
    "1" :> "checksum error" @@
    "2" :> "invalid command name" @@
    "3" :> "parameter out of range" @@
    "4" :> "invalid message length" @@
    "5" :> "sensor or feature not configured or used"

\* ERROR_CODES.get(error_code, "Unrecognized error code")
ErrorDescr(error_code) ==
    IF error_code \in DOMAIN ERROR_CODES THEN ERROR_CODES[error_code]
    ELSE "Unrecognized error code"

\* The error digits a reply can carry: those of ERROR_CODES and one more.
ErrorDigits == DOMAIN ERROR_CODES \cup {"9"}

\* An exception: its type and, for a rejected command, the error digit and
\* its meaning.
Err(type, code, descr) == [type |-> type, code |-> code, descr |-> descr]
NoError == Err("none", "", "")

\* A call of the status callback.
StatusCall(by, frames) == [by |-> by, frames |-> frames]

\* tpc: "none" (not running), "ready" (sleeping, or about to call
\* run_command), "inflight" (in client.run_command, holding the lock),
\* "returned" (run_command returned), "finishing" (handle_watchdog is past
\* its reads) and "ended".
LoopInit ==
    /\ cm_client = "none"
    /\ wire = <<>>
    /\ tpc = [t \in CmTasks |-> "none"]
    /\ tcmd = [t \in CmTasks |-> "none"]
    /\ stack = [t \in CmTasks |-> <<>>]
    /\ loop_index = [t \in CmTasks |-> 1]
    /\ evt_chillerWatchdog = {}
    /\ evt_chillerConnected = FALSE
    /\ status_called = {}
    /\ disconnect_task = "none"
    /\ raised = NoError
    /\ cm_ncalls = 0

CmFrame ==
    UNCHANGED <<chillerVars, lampVars, cscVars, protoVars, lampMoreVars>>

\* A step that handles no reply of a group of fields.
NoFieldHandled ==
    /\ written' = {}
    /\ UNCHANGED <<seen_fan_speeds, seen_temperatures,
                   seen_tec_bank_currents, seen_alarms, since_write>>

\* ChillerModel.connect up to configure_chiller: the client connects and
\* evt_chillerConnected is written; do_watchdog is the CSC task's first
\* command.
CmConnect ==
    /\ cm_client = "none"
    /\ cm_client' = "connected"
    /\ evt_chillerConnected' = TRUE
    /\ tpc' = [tpc EXCEPT !["csc"] = "ready"]
    /\ status_called' = {}
    /\ NoFieldHandled
    /\ UNCHANGED <<wire, tcmd, stack, loop_index, evt_chillerWatchdog,
                   disconnect_task, cm_ncalls>>
    /\ raised' = NoError
    /\ CmFrame

\* run_command up to the write of ChillerClient.run_command, which holds
\* the communication lock until the reply is read or the read fails.
CmSend(t) ==
    /\ tpc[t] = "ready"
    /\ cm_client = "connected"
    /\ \A u \in CmTasks : tpc[u] # "inflight"
    /\ cm_ncalls < MaxCmCalls
    /\ cm_ncalls' = cm_ncalls + 1
    /\ wire' = Append(wire, NextCommand(t))
    /\ tcmd' = [tcmd EXCEPT ![t] = NextCommand(t)]
    /\ tpc' = [tpc EXCEPT ![t] = "inflight"]
    /\ stack' = IF stack[t] = <<>> THEN stack
                ELSE [stack EXCEPT ![t] = ReplaceTop(t,
                        [Top(t) EXCEPT !.reads = Append(@, NextCommand(t))])]
    /\ status_called' = {}
    /\ NoFieldHandled
    /\ UNCHANGED <<cm_client, loop_index, evt_chillerWatchdog,
                   evt_chillerConnected, disconnect_task>>
    /\ raised' = NoError
    /\ CmFrame

\* An exception leaves run_command in task t: handle_reply swallows it if
\* the call was made by a reply handler, else it reaches the loop, which
\* ends and, unless it is a ConnectedError, creates the disconnect task; in
\* the CSC task it fails the CSC's command.
Raise(t, error) ==
    IF stack[t] # <<>>
      THEN /\ stack' = [stack EXCEPT ![t] = Pop(t)]
           /\ tpc' = [tpc EXCEPT ![t] = "returned"]
           /\ raised' = error
           /\ UNCHANGED disconnect_task
      ELSE /\ stack' = stack
           /\ tpc' = [tpc EXCEPT ![t] = "ended"]
           /\ raised' = error
           /\ disconnect_task' =
                 IF t \in LoopTasks /\ error.type # "ConnectedError"
                    /\ disconnect_task = "none"
                   THEN "scheduled" ELSE disconnect_task

\* run_command finds the model not connected.
CmNotConnected(t) ==
    /\ tpc[t] = "ready"
    /\ cm_client # "connected"
    /\ Raise(t, Err("ConnectedError", "", "Not connected"))
    /\ status_called' = {}
    /\ NoFieldHandled
    /\ UNCHANGED <<cm_client, wire, tcmd, loop_index, evt_chillerWatchdog,
                   evt_chillerConnected, cm_ncalls>>
    /\ CmFrame

\* ChillerClient.run_command fails: the read times out, or the connection
\* was lost.  The reply of a command that timed out stays to be read.
\* A disconnect task that was created runs before a timeout expires.
CmCommandFails(t) ==
    /\ tpc[t] = "inflight"
    /\ disconnect_task # "scheduled"
    /\ Raise(t, Err("TimeoutError", "", ""))
    /\ status_called' = {}
    /\ NoFieldHandled
    /\ UNCHANGED <<cm_client, wire, tcmd, loop_index, evt_chillerWatchdog,
                   evt_chillerConnected, cm_ncalls>>
    /\ CmFrame

\* The writes of evt_chillerAlarms counted in every running handle_watchdog.
CountAlarmsWrite(st) ==
    [u \in CmTasks |->
        [i \in 1..Len(st[u]) |->
            [st[u][i] EXCEPT !.writes = IF @ < 2 THEN @ + 1 ELSE @,
                             !.write_reads = Len(st[u][i].reads)]]]

\* ChillerModel.handle_watchdog up to its first follow-up read.
handle_watchdog(t, wd_data) ==
    LET did_change == evt_chillerWatchdog # {wd_data}
        f == Frame(wd_data, did_change)
    IN  /\ evt_chillerWatchdog' = {wd_data}
        /\ stack' = [stack EXCEPT ![t] = Append(@, f)]
        /\ tpc' = [tpc EXCEPT ![t] = IF f.pos = "end" THEN "finishing"
                                     ELSE "ready"]
        /\ IF wd_data.alarmsPresent
             THEN /\ seen_alarms' = {}
                  /\ written' = {}
                  /\ since_write' =
                        [since_write EXCEPT !["evt_chillerAlarms"] = {}]
             ELSE /\ seen_alarms' = seen_alarms
                  /\ written' = {Written("evt_chillerAlarms", {"zeroed"})}
                  /\ since_write' = since_write
        /\ UNCHANGED <<seen_fan_speeds, seen_temperatures,
                       seen_tec_bank_currents>>

\* ChillerModel.handle_reply: the handler is chosen by the reply's command.
handle_reply(t, reply) ==
    CASE reply = "01WatchDog" ->
            \E wd_data \in WatchdogData : handle_watchdog(t, wd_data)
      [] reply \in {"03rSetTemp", "04rSupplyT", "08rAmbTemp"} ->
            /\ handle_read_temperature(
                  CASE reply = "03rSetTemp" -> "setTemperature"
                    [] reply = "04rSupplyT" -> "supplyTemperature"
                    [] OTHER -> "ambientTemperature")
            /\ tpc' = [tpc EXCEPT ![t] = "returned"]
            /\ UNCHANGED <<stack, evt_chillerWatchdog>>
      [] reply \in {"50rFanSpd1", "51rFanSpd2", "52rFanSpd3", "53rFanSpd4"} ->
            /\ handle_read_fan_speed(
                  CASE reply = "50rFanSpd1" -> 1
                    [] reply = "51rFanSpd2" -> 2
                    [] reply = "52rFanSpd3" -> 3
                    [] OTHER -> 4)
            /\ tpc' = [tpc EXCEPT ![t] = "returned"]
            /\ UNCHANGED <<stack, evt_chillerWatchdog>>
      [] reply \in {"10rTECB1Cr", "11rTECDrLv"} ->
            /\ handle_read_tec_bank_currents(
                  IF reply = "10rTECB1Cr" THEN "bank1" ELSE "bank2")
            /\ tpc' = [tpc EXCEPT ![t] = "returned"]
            /\ UNCHANGED <<stack, evt_chillerWatchdog>>
      [] reply \in {"18rAlrmLv1", "19rAlrmLv21", "19rAlrmLv22"} ->
            /\ handle_read_alarms(
                  CASE reply = "18rAlrmLv1" -> "level1"
                    [] reply = "19rAlrmLv21" -> "level21"
                    [] OTHER -> "level22")
            /\ tpc' = [tpc EXCEPT ![t] = "returned"]
            /\ stack' = IF written' = {} THEN stack
                        ELSE CountAlarmsWrite(stack)
            /\ UNCHANGED evt_chillerWatchdog
      [] OTHER ->
            /\ NoFieldHandled
            /\ tpc' = [tpc EXCEPT ![t] = "returned"]
            /\ UNCHANGED <<stack, evt_chillerWatchdog>>

\* ChillerModel.run_command once it has the reply, with the test of the
\* error digit left out.
run_command_reply_Unchecked(t, reply, error_code) ==
    /\ handle_reply(t, reply)
    /\ raised' = NoError
    /\ UNCHANGED disconnect_task

\* ChillerModel.run_command once it has the reply: a reply whose error
\* digit is not "0" raises, any other is handled.
run_command_reply(t, reply, error_code) ==
    IF error_code # "0"
      THEN /\ Raise(t, Err("RuntimeError", error_code, ErrorDescr(error_code)))
           /\ NoFieldHandled
           /\ UNCHANGED evt_chillerWatchdog
      ELSE /\ handle_reply(t, reply)
           /\ raised' = NoError
           /\ UNCHANGED disconnect_task

\* ChillerClient.run_command reads the next reply, whichever command it
\* answers, and ChillerModel.run_command has it handled.  A disconnect
\* task that was created runs before the next reply arrives.
CmReply(t) ==
    /\ tpc[t] = "inflight"
    /\ disconnect_task # "scheduled"
    /\ cm_client = "connected"
    /\ wire # <<>>
    /\ wire' = Tail(wire)
    /\ \E error_code \in ErrorDigits :
          run_command_reply(t, Head(wire), error_code)
    /\ status_called' = {}
    /\ UNCHANGED <<cm_client, tcmd, loop_index, evt_chillerConnected,
                   cm_ncalls>>
    /\ CmFrame

\* run_command returned to its caller: handle_watchdog goes on to its next
\* read, a loop to its next command; connect() creates the two loops.
CmReturn(t) ==
    /\ tpc[t] = "returned"
    /\ IF stack[t] # <<>>
         THEN /\ stack' = [stack EXCEPT ![t] = ReplaceTop(t,
                              [Top(t) EXCEPT !.pos = NextPos(Top(t))])]
              /\ tpc' = [tpc EXCEPT ![t] = IF NextPos(Top(t)) = "end"
                                             THEN "finishing" ELSE "ready"]
              /\ UNCHANGED loop_index
         ELSE /\ stack' = stack
              /\ IF t = "csc"
                   THEN /\ loop_index' = [loop_index EXCEPT ![t] = @ + 1]
                        /\ tpc' = [u \in CmTasks |->
                              IF u = t
                                THEN IF loop_index[t] = Len(CscCommands)
                                       THEN "ended" ELSE "ready"
                              ELSE IF loop_index[t] = 1 THEN "ready"
                              ELSE tpc[u]]
                   ELSE /\ loop_index' = [loop_index EXCEPT ![t] =
                              IF t = "telemetry"
                                THEN (@ % Len(TelemetryCommands)) + 1 ELSE @]
                        /\ tpc' = [tpc EXCEPT ![t] = "ready"]
    /\ status_called' = {}
    /\ NoFieldHandled
    /\ UNCHANGED <<cm_client, wire, tcmd, evt_chillerWatchdog,
                   evt_chillerConnected, disconnect_task, cm_ncalls>>
    /\ raised' = NoError
    /\ CmFrame

\* The end of handle_watchdog: the status callback is called if set_write
\* reported a change.
CmFinish(t) ==
    /\ tpc[t] = "finishing"
    /\ status_called' = IF Top(t).did_change
                          THEN {StatusCall("handle_watchdog", <<Top(t)>>)}
                          ELSE {}
    /\ stack' = [stack EXCEPT ![t] = Pop(t)]
    /\ tpc' = [tpc EXCEPT ![t] = "returned"]
    /\ NoFieldHandled
    /\ UNCHANGED <<cm_client, wire, tcmd, loop_index, evt_chillerWatchdog,
                   evt_chillerConnected, disconnect_task, cm_ncalls>>
    /\ raised' = NoError
    /\ CmFrame

\* The chiller closes the connection: the reader is at end of file.
CmConnectionLost ==
    /\ cm_client = "connected"
    /\ cm_client' = "lost"
    /\ wire' = <<>>
    /\ status_called' = {}
    /\ NoFieldHandled
    /\ UNCHANGED <<tpc, tcmd, stack, loop_index, evt_chillerWatchdog,
                   evt_chillerConnected, disconnect_task, cm_ncalls>>
    /\ raised' = NoError
    /\ CmFrame

\* ChillerModel.disconnect, run by the task a failed loop created.
CmDisconnect ==
    /\ disconnect_task = "scheduled"
    /\ disconnect_task' = "done"
    /\ evt_chillerConnected' = FALSE
    /\ tpc' = [u \in CmTasks |-> IF u \in LoopTasks THEN "ended" ELSE tpc[u]]
    /\ stack' = [u \in CmTasks |-> IF u \in LoopTasks THEN <<>> ELSE stack[u]]
    /\ reset_seen
    /\ cm_client' = "closed"
    /\ status_called' = IF evt_chillerConnected
                          THEN {StatusCall("disconnect", <<>>)} ELSE {}
    /\ UNCHANGED <<wire, tcmd, loop_index, evt_chillerWatchdog, cm_ncalls>>
    /\ raised' = NoError
    /\ CmFrame

CmNext ==
    \/ CmConnect
    \/ \E t \in CmTasks : CmSend(t)
    \/ \E t \in CmTasks : CmNotConnected(t)
    \/ \E t \in CmTasks : CmCommandFails(t)
    \/ \E t \in CmTasks : CmReply(t)
    \/ \E t \in CmTasks : CmReturn(t)
    \/ \E t \in CmTasks : CmFinish(t)
    \/ CmConnectionLost
    \/ CmDisconnect

\* ChillerModel.connect on a model that was connected before, called by
\* the CSC when the chiller is not connected: disconnect() first (the loops
\* are cancelled, the seen sets reset, the status callback called if the
\* connected event changed), then a new client connects and do_watchdog is
\* the CSC task's first command.
CmConnectAgain ==
    /\ cm_client \in {"lost", "closed"}
    /\ tpc["csc"] = "ended"
    /\ disconnect_task # "scheduled"
    /\ reset_seen
    /\ cm_client' = "connected"
    /\ evt_chillerConnected' = TRUE
    /\ tpc' = [u \in CmTasks |-> IF u = "csc" THEN "ready" ELSE "none"]
    /\ tcmd' = [u \in CmTasks |-> "none"]
    /\ stack' = [u \in CmTasks |-> <<>>]
    /\ loop_index' = [u \in CmTasks |-> 1]
    /\ wire' = <<>>
    /\ disconnect_task' = "none"
    /\ status_called' = IF evt_chillerConnected
                          THEN {StatusCall("disconnect", <<>>)} ELSE {}
    /\ raised' = NoError
    /\ UNCHANGED <<evt_chillerWatchdog, cm_ncalls>>
    /\ CmFrame

\* The chiller model over several connections, with a watchdog loop that
\* does not get to send its command.
CmAgainNext ==
    \/ CmConnect
    \/ \E t \in {"csc", "telemetry"} : CmSend(t)
    \/ \E t \in CmTasks : CmNotConnected(t)
    \/ \E t \in CmTasks : CmCommandFails(t)
    \/ \E t \in CmTasks : CmReply(t)
    \/ \E t \in CmTasks : CmReturn(t)
    \/ \E t \in CmTasks : CmFinish(t)
    \/ CmConnectionLost
    \/ CmDisconnect
    \/ CmConnectAgain

(***************************************************************************)
(* Part 5: the bytes of commands and replies.  A string is a sequence of  *)
(* one-character strings.                                                   *)
(***************************************************************************)

\* ord(): the ASCII code of the characters used here.
Ord ==
    " " :> 32 @@ "#" :> 35 @@ "+" :> 43 @@ "," :> 44 @@ "-" :> 45 @@
    "." :> 46 @@ "0" :> 48 @@ "1" :> 49 @@ "2" :> 50 @@ "3" :> 51 @@
    "4" :> 52 @@ "5" :> 53 @@ "6" :> 54 @@ "7" :> 55 @@ "8" :> 56 @@
    "9" :> 57 @@ "A" :> 65 @@ "B" :> 66 @@ "C" :> 67 @@ "D" :> 68 @@
    "E" :> 69 @@ "F" :> 70 @@ "G" :> 71 @@ "H" :> 72 @@ "I" :> 73 @@
    "J" :> 74 @@ "K" :> 75 @@ "L" :> 76 @@ "M" :> 77 @@ "N" :> 78 @@
    "O" :> 79 @@ "P" :> 80 @@ "Q" :> 81 @@ "R" :> 82 @@ "S" :> 83 @@
    "T" :> 84 @@ "U" :> 85 @@ "V" :> 86 @@ "W" :> 87 @@ "X" :> 88 @@
    "Y" :> 89 @@ "Z" :> 90 @@ "_" :> 95 @@ "a" :> 97 @@ "b" :> 98 @@
    "c" :> 99 @@ "d" :> 100 @@ "e" :> 101 @@ "f" :> 102 @@ "g" :> 103 @@
    "h" :> 104 @@ "i" :> 105 @@ "j" :> 106 @@ "k" :> 107 @@ "l" :> 108 @@
    "m" :> 109 @@ "n" :> 110 @@ "o" :> 111 @@ "p" :> 112 @@ "q" :> 113 @@
    "r" :> 114 @@ "s" :> 115 @@ "t" :> 116 @@ "u" :> 117 @@ "v" :> 118 @@
    "w" :> 119 @@ "x" :> 120 @@ "y" :> 121 @@ "z" :> 122 @@ "~" :> 126 @@
    "\r" :> 13

\* The digits hex() writes.
HexDigits ==
    <<"0", "1", "2", "3", "4", "5", "6", "7",
      "8", "9", "a", "b", "c", "d", "e", "f">>

RECURSIVE SumOrd(_)
\* sum(ord(ch) for ch in st)
SumOrd(st) == IF st = <<>> THEN 0 ELSE Ord[Head(st)] + SumOrd(Tail(st))

RECURSIVE HexOf(_)
\* The digits of hex(n), without the "0x".
HexOf(n) ==
    IF n < 16 THEN <<HexDigits[n + 1]>>
    ELSE HexOf(n \div 16) \o <<HexDigits[(n % 16) + 1]>>

\* hex(n)
hex(n) == <<"0", "x">> \o HexOf(n)

\* st[-2:]
LastTwo(st) == IF Len(st) <= 2 THEN st ELSE SubSeq(st, Len(st) - 1, Len(st))

\* ChillerClient.compute_checksum
compute_checksum(st) == LastTwo(hex(SumOrd(st)))

\* The device ID of the chiller.
device_id == <<"0", "1">>

\* The test of format_full_command with the lower limit off by one.
CommandLengthOk_From9(body) == Len(body) >= 9 /\ Len(body) <= 18

\* The lengths format_full_command accepts.
CommandLengthOk(body) == ~(Len(body) < 10 \/ Len(body) > 18)

\* ChillerClient.format_full_command, for a command it accepts.
format_full_command(body) ==
    LET start == <<".">> \o device_id \o body
    IN  start \o compute_checksum(start) \o <<"\r">>

\* Commands of 10 characters.
SetStatusCommand == <<"1", "5", "s", "S", "t", "a", "t", "u", "s", "_">>
SetTemperatureCommand == <<"1", "7", "s", "C", "t", "r", "l", "T", "m", "p">>
ReadL1Command == <<"1", "8", "r", "A", "l", "r", "m", "L", "v", "1">>
ReadL2Command == <<"1", "9", "r", "A", "l", "r", "m", "L", "v", "2">>
ReadWarningsCommand == <<"2", "0", "r", "W", "a", "r", "n", "L", "v", "1">>
ReadSupplyCommand == <<"0", "4", "r", "S", "u", "p", "p", "l", "y", "T">>

\* n times the character ch.
RECURSIVE Repeat(_, _)
Repeat(ch, n) == IF n = 0 THEN <<>> ELSE <<ch>> \o Repeat(ch, n - 1)

\* The longest data a command is given here.
MaxDataLen == 10

\* The commands given to ChillerClient.run_command: a command name cut
\* short or followed by data, of 8 to 10 + MaxDataLen characters.
Commands ==
    {SubSeq(base \o Repeat(ch, MaxDataLen), 1, n) :
        base \in {SetStatusCommand, SetTemperatureCommand},
        ch \in {"0", "9", "+", "~"},
        n \in 8..(10 + MaxDataLen)}
    \cup {ReadL1Command, ReadL2Command \o <<"1">>, ReadL2Command \o <<"2">>,
          ReadWarningsCommand, ReadSupplyCommand}


\* The value of a hex digit, of either case: int(x, 16).
HexValue ==
    "0" :> 0 @@ "1" :> 1 @@ "2" :> 2 @@ "3" :> 3 @@ "4" :> 4 @@ "5" :> 5 @@
    "6" :> 6 @@ "7" :> 7 @@ "8" :> 8 @@ "9" :> 9 @@
    "a" :> 10 @@ "b" :> 11 @@ "c" :> 12 @@ "d" :> 13 @@ "e" :> 14 @@
    "f" :> 15 @@
    "A" :> 10 @@ "B" :> 11 @@ "C" :> 12 @@ "D" :> 13 @@ "E" :> 14 @@
    "F" :> 15

\* The digits of the format specifier X.
UpperHexDigits ==
    <<"0", "1", "2", "3", "4", "5", "6", "7",
      "8", "9", "A", "B", "C", "D", "E", "F">>

RECURSIVE UpperHexOf(_)
UpperHexOf(n) ==
    IF n < 16 THEN <<UpperHexDigits[n + 1]>>
    ELSE UpperHexOf(n \div 16) \o <<UpperHexDigits[(n % 16) + 1]>>

\* st[::-1]
RECURSIVE Reverse(_)
Reverse(st) == IF st = <<>> THEN <<>> ELSE Reverse(Tail(st)) \o <<Head(st)>>

\* MockChiller.format_mask: f"{value:0{ndig}X}"[::-1]
format_mask(value, ndig) ==
    LET digits == UpperHexOf(value)
        padded == IF Len(digits) >= ndig THEN digits
                  ELSE Repeat("0", ndig - Len(digits)) \o digits
    IN  Reverse(padded)

\* int(st, 16) can parse st.
IsHex(st) == st # <<>> /\ \A i \in 1..Len(st) : st[i] \in DOMAIN HexValue

RECURSIVE ParseHex(_, _)
\* int(st, 16), digit by digit.
ParseHex(st, acc) ==
    IF st = <<>> THEN acc ELSE ParseHex(Tail(st), 16 * acc + HexValue[Head(st)])

\* The decode of a mask without the reversal.
decode_mask_NotReversed(mask_data) == ParseHex(mask_data, 0)

\* int(data[::-1], 16) of handle_read_l1_alarms, handle_read_l2_alarms and
\* handle_read_warnings.
decode_mask(mask_data) == ParseHex(Reverse(mask_data), 0)

\* The fields of the masks, with the digits MockChiller formats them in.
MaskDigits == [level1 |-> 6, level21 |-> 8, level22 |-> 8, warnings |-> 8]
MaskFields == DOMAIN MaskDigits

\* The mask values programmed on the mock chiller: they fit in 6 digits, or
\* in 8 digits only.
MaskValues6 ==
    {1, 2, 16, 18, 2748, 65535, 1048576, 11259375, 16777215}
MaskValues8 == MaskValues6 \cup {16777216, 305419896, 2147483647}
MaskValuesOf == [level1 |-> MaskValues6, level21 |-> MaskValues8,
                 level22 |-> MaskValues8, warnings |-> MaskValues8]

\* The data MockChiller gives for a temperature read.
TemperatureData == <<"+", "0", "2", "8", "4">>

\* ChillerThresholdType, in the order configure_chiller sets them.
ThresholdTypes ==
    <<"HighSupplyTemperature", "LowSupplyTemperature",
      "HighAmbientTemperature", "LowAmbientTemperature",
      "LowCoolantFlowRate">>
ThresholdKinds == {"alarm", "warning"}

\* cmd_str of do_set_alarm_threshold.
AlarmCmdStr ==
    [HighSupplyTemperature |-> <<"2", "6", "s", "H", "i", "S", "p", "T", "A", "l">>,
     LowSupplyTemperature |-> <<"2", "7", "s", "L", "o", "S", "p", "T", "A", "l">>,
     HighAmbientTemperature |-> <<"2", "8", "s", "H", "i", "A", "m", "T", "A", "l">>,
     LowAmbientTemperature |-> <<"2", "9", "s", "L", "o", "A", "m", "T", "A", "l">>,
     LowCoolantFlowRate |-> <<"3", "0", "s", "L", "o", "P", "F", "l", "A", "l">>]

\* cmd_str of do_set_warning_threshold.
WarningCmdStr ==
    [HighSupplyTemperature |-> <<"2", "1", "s", "H", "i", "S", "p", "T", "W", "n">>,
     LowSupplyTemperature |-> <<"2", "2", "s", "L", "o", "S", "p", "T", "W", "n">>,
     HighAmbientTemperature |-> <<"2", "8", "s", "H", "i", "A", "m", "T", "W", "n">>,
     LowAmbientTemperature |-> <<"2", "9", "s", "L", "o", "A", "m", "T", "W", "n">>,
     LowCoolantFlowRate |-> <<"3", "0", "s", "L", "o", "P", "F", "l", "W", "n">>]

\* The command IDs of reply_handlers that set a threshold on the chiller.
ThresholdIds ==
    {<<"2", d>> : d \in {"1", "2", "3", "4", "5", "6", "7", "8", "9"}}
    \cup {<<"3", "0">>}

\* The calls of configure_chiller after do_set_control_temperature.
ConfigureCalls ==
    [i \in 1..(2 * Len(ThresholdTypes)) |->
        IF i <= Len(ThresholdTypes)
          THEN [kind |-> "alarm", type |-> ThresholdTypes[i]]
          ELSE [kind |-> "warning",
                type |-> ThresholdTypes[i - Len(ThresholdTypes)]]]

\* configure_pc when configure_chiller has returned, and when it raised.
ConfigureDone == Len(ConfigureCalls) + 2
ConfigureAborted == ConfigureDone + 1

\* Configured thresholds, in tenths: temperatures (C) and flow rates
\* (liters/min) the schema allows.
TemperatureThresholds == {-70, 250}
FlowThresholds == {0, 15}
TemperatureTypes ==
    {ThresholdTypes[i] : i \in 1..Len(ThresholdTypes)}
    \ {"LowCoolantFlowRate"}
Configs ==
    [temperature : [ThresholdKinds \X TemperatureTypes ->
                        TemperatureThresholds],
     flow : [ThresholdKinds -> FlowThresholds]]

\* self.config.<type>_<kind>, in tenths.
ConfigValue(config, kind, type) ==
    IF type = "LowCoolantFlowRate" THEN config.flow[kind]
    ELSE config.temperature[<<kind, type>>]

\* n as at least ndig decimal digits.
RECURSIVE Decimal(_, _)
Decimal(n, ndig) ==
    IF ndig <= 1 /\ n < 10 THEN <<HexDigits[n + 1]>>
    ELSE Decimal(n \div 10, ndig - 1) \o <<HexDigits[(n % 10) + 1]>>

\* format_chiller_command_value(value, scale=10, nchar=5, signed=True) of
\* the value whose tenths are given: f"{value*scale:+05.0f}".
format_chiller_command_value(tenths) ==
    IF tenths < 0 THEN <<"-">> \o Decimal(0 - tenths, 4)
    ELSE <<"+">> \o Decimal(tenths, 4)

ProtoInit ==
    /\ cmd = <<>>
    /\ sent = <<>>
    /\ reply_bytes = <<>>
    /\ mock_masks = [f \in MaskFields |-> 0]
    /\ published_masks = [f \in MaskFields |-> {}]
    /\ thresholds = <<>>
    /\ chiller_thresholds = [id \in ThresholdIds |-> <<>>]
    /\ configure_pc = 0

\* What a step of an exchange leaves alone.
ProtoFrame ==
    UNCHANGED <<chillerVars, lampVars, cscVars, cm_client, wire, tpc, tcmd,
                stack, loop_index, evt_chillerWatchdog, evt_chillerConnected,
                status_called, disconnect_task, cm_ncalls, lampMoreVars>>

\* The mock chiller is given a value for one of its masks.
MockProgram(field, value) ==
    /\ sent = <<>>
    /\ mock_masks = [f \in MaskFields |-> 0]
    /\ mock_masks' = [mock_masks EXCEPT ![field] = value]
    /\ raised' = NoError
    /\ NoFieldHandled
    /\ UNCHANGED <<cmd, sent, reply_bytes, published_masks, thresholds,
                   chiller_thresholds, configure_pc>>
    /\ ProtoFrame

\* ChillerClient.run_command up to the write: the command is formatted, or
\* format_full_command raises and nothing is written.
ClientRunCommand(body) ==
    /\ cm_client = "connected"
    /\ sent = <<>>
    /\ cmd' = body
    /\ IF CommandLengthOk(body)
         THEN sent' = format_full_command(body) /\ raised' = NoError
         ELSE sent' = <<>> /\ raised' = Err("ValueError", "", "")
    /\ reply_bytes' = <<>>
    /\ NoFieldHandled
    /\ UNCHANGED <<mock_masks, published_masks, thresholds,
                   chiller_thresholds, configure_pc>>
    /\ ProtoFrame

\* The data of the mock chiller's reply to a command.
MockData(cmd_id, command_data) ==
    CASE cmd_id = <<"1", "8">> ->
            format_mask(mock_masks.level1, MaskDigits.level1)
      [] cmd_id = <<"1", "9">> ->
            command_data \o
            format_mask(IF command_data = <<"1">> THEN mock_masks.level21
                        ELSE mock_masks.level22, MaskDigits.level21)
      [] cmd_id = <<"2", "0">> ->
            format_mask(mock_masks.warnings, MaskDigits.warnings)
      [] cmd_id = <<"0", "4">> -> TemperatureData
      [] OTHER -> command_data

\* The checksum as sent, or in upper case, or one that does not match.
Damaged(checksum, damage) ==
    CASE damage = "none" -> checksum
      [] damage = "upper" ->
            [i \in 1..Len(checksum) |->
                UpperHexDigits[HexValue[checksum[i]] + 1]]
      [] OTHER ->
            [i \in 1..Len(checksum) |->
                IF i = Len(checksum)
                  THEN HexDigits[((HexValue[checksum[i]] + 1) % 16) + 1]
                  ELSE checksum[i]]

Damages == {"none", "upper", "corrupt"}

\* MockChiller.command_loop: the reply to the command read, with its
\* checksum; on the way the checksum may change case or be corrupted.
MockChillerReplies(damage) ==
    /\ sent # <<>>
    /\ reply_bytes = <<>>
    /\ LET command == SubSeq(sent, 1, Len(sent) - 3)
           cmd_id == SubSeq(command, 4, 5)
           command_data == SubSeq(command, 14, Len(command))
           reply_body == <<"#">> \o SubSeq(command, 2, 5) \o <<"0">>
                         \o SubSeq(command, 6, 13)
           reply == reply_body \o MockData(cmd_id, command_data)
       IN  reply_bytes' = reply \o Damaged(compute_checksum(reply), damage)
                          \o <<"\r">>
    /\ raised' = NoError
    /\ NoFieldHandled
    /\ UNCHANGED <<cmd, sent, mock_masks, published_masks, thresholds,
                   chiller_thresholds, configure_pc>>
    /\ ProtoFrame

\* The handlers of handle_reply for the replies of this part, by the
\* command ID of the reply; a handler that raises changes nothing more.
HandleReplyBytes(cmd_id, reply_data) ==
    CASE cmd_id = <<"1", "8">> /\ IsHex(reply_data) ->
            /\ published_masks' =
                  [published_masks EXCEPT !.level1 = {decode_mask(reply_data)}]
            /\ handle_read_alarms("level1")
      [] cmd_id = <<"1", "9">> /\ Len(reply_data) > 1
         /\ IsHex(Tail(reply_data)) /\ Head(reply_data) \in {"1", "2"} ->
            LET field == IF Head(reply_data) = "1" THEN "level21"
                         ELSE "level22"
            IN  /\ published_masks' =
                      [published_masks EXCEPT
                          ![field] = {decode_mask(Tail(reply_data))}]
                /\ handle_read_alarms(field)
      [] cmd_id = <<"2", "0">> /\ IsHex(reply_data) ->
            /\ published_masks' =
                  [published_masks EXCEPT !.warnings = {decode_mask(reply_data)}]
            /\ written' = {Written("evt_chillerWarnings", {"warnings"})}
            /\ UNCHANGED <<seen_fan_speeds, seen_temperatures,
                           seen_tec_bank_currents, seen_alarms, since_write>>
      [] cmd_id = <<"0", "4">> ->
            /\ handle_read_temperature("supplyTemperature")
            /\ UNCHANGED published_masks
      [] OTHER ->
            /\ NoFieldHandled
            /\ UNCHANGED published_masks

\* ChillerClient.run_command from the read on, and ChillerModel.run_command
\* after it: the last three bytes are cut off and the rest is handled.
ClientReadsReply ==
    /\ sent # <<>>
    /\ reply_bytes # <<>>
    /\ LET reply == SubSeq(reply_bytes, 1, Len(reply_bytes) - 3)
       IN  IF Len(reply) < 14
             THEN /\ raised' = Err("RuntimeError", "", "")
                  /\ NoFieldHandled
                  /\ UNCHANGED published_masks
           ELSE IF reply[6] # "0"
             THEN /\ raised' = Err("RuntimeError", reply[6],
                                   ErrorDescr(reply[6]))
                  /\ NoFieldHandled
                  /\ UNCHANGED published_masks
           ELSE /\ raised' = NoError
                /\ IF reply[1] # "#"
                     THEN NoFieldHandled /\ UNCHANGED published_masks
                     ELSE HandleReplyBytes(SubSeq(reply, 4, 5),
                                           SubSeq(reply, 15, Len(reply)))
    /\ sent' = <<>>
    /\ UNCHANGED <<cmd, reply_bytes, mock_masks, thresholds,
                   chiller_thresholds, configure_pc>>
    /\ ProtoFrame

\* The commands whose reply carries a mask.
MaskCommands ==
    {ReadL1Command, ReadL2Command \o <<"1">>, ReadL2Command \o <<"2">>,
     ReadWarningsCommand}

\* A ChillerModel made with a configuration has connected and
\* configure_chiller begins.
CmConfigure(config) ==
    /\ cm_client = "connected"
    /\ configure_pc = 0
    /\ sent = <<>>
    /\ thresholds' = config
    /\ configure_pc' = 1
    /\ raised' = NoError
    /\ NoFieldHandled
    /\ UNCHANGED <<cmd, sent, reply_bytes, mock_masks, published_masks,
                   chiller_thresholds>>
    /\ ProtoFrame

\* The chiller is sent a command and, for a command ID that sets a
\* threshold, holds its data as that threshold.
ChillerStores(body) ==
    LET full == format_full_command(body)
        command == SubSeq(full, 1, Len(full) - 3)
        cmd_id == SubSeq(command, 4, 5)
    IN  /\ cmd' = body
        /\ chiller_thresholds' =
              IF cmd_id \in ThresholdIds
                THEN [chiller_thresholds EXCEPT
                         ![cmd_id] = SubSeq(command, 14, Len(command))]
                ELSE chiller_thresholds

\* do_set_alarm_threshold and do_set_warning_threshold.
do_set_threshold(cmd_str, threshold_type, value) ==
    IF threshold_type = "LowCoolantFlowRate" /\ value <= 0
      THEN /\ raised' = Err("ValueError", "", "")
           /\ configure_pc' = ConfigureAborted
           /\ UNCHANGED <<cmd, chiller_thresholds>>
      ELSE /\ ChillerStores(cmd_str[threshold_type]
                            \o format_chiller_command_value(value))
           /\ raised' = NoError
           /\ configure_pc' = configure_pc + 1

\* The next call of configure_chiller, the exchange with the chiller
\* included.
ConfigureStep ==
    /\ cm_client = "connected"
    /\ configure_pc \in 1..(ConfigureDone - 1)
    /\ IF configure_pc = 1
         THEN /\ ChillerStores(SetTemperatureCommand \o TemperatureData)
              /\ raised' = NoError
              /\ configure_pc' = configure_pc + 1
         ELSE LET call == ConfigureCalls[configure_pc - 1]
              IN  do_set_threshold(
                      IF call.kind = "alarm" THEN AlarmCmdStr
                      ELSE WarningCmdStr,
                      call.type,
                      ConfigValue(thresholds, call.kind, call.type))
    /\ NoFieldHandled
    /\ UNCHANGED <<sent, reply_bytes, mock_masks, published_masks,
                   thresholds>>
    /\ ProtoFrame

\* connect and configure_chiller under every configuration.
ConfigureNext ==
    \/ CmConnect
    \/ \E config \in Configs : CmConfigure(config)
    \/ ConfigureStep

\* Commands of every length, their replies damaged or not.
FramesNext ==
    \/ CmConnect
    \/ \E body \in Commands : ClientRunCommand(body)
    \/ \E damage \in Damages : MockChillerReplies(damage)
    \/ ClientReadsReply

\* The masks read back from the mock chiller.
MasksNext ==
    \/ CmConnect
    \/ \E field \in MaskFields : \E value \in MaskValuesOf[field] :
          MockProgram(field, value)
    \/ \E body \in MaskCommands : ClientRunCommand(body)
    \/ MockChillerReplies("none")
    \/ ClientReadsReply

(***************************************************************************)
(* Part 6.  LampModel.move_shutter (lamp_model.py) with the shutter part   *)
(* of the status loop and the LabJack's shutter channels.  The lamp is     *)
(* connected and evt_shutterState has data: ATWhiteLightCsc.start writes   *)
(* it and the shutter commands require lamp_connected.                     *)
(***************************************************************************)

\* ShutterState of the two switches, as status_loop decodes them.
ShutterStateOf(closed, open) ==
    CASE ~closed /\ ~open -> "UNKNOWN"
      [] closed /\ ~open -> "CLOSED"
      [] ~closed /\ open -> "OPEN"
      [] OTHER -> "INVALID"

ShutterInit ==
    /\ shutter_pc = "idle"
    /\ shutter_do_open = FALSE
    /\ evt_shutterState = [commandedState |-> "UNKNOWN",
                           actualState |-> "UNKNOWN", enabled |-> FALSE]
    /\ do_open_shutter = FALSE
    /\ shutter_enabled = FALSE
    /\ shutter_switches = [open |-> FALSE, closed |-> TRUE]
    /\ shutter_events = [open |-> FALSE, closed |-> FALSE]
    /\ shutter_result = "none"
    /\ shutter_call = "none"
    /\ shutter_written = {}

\* What a step of this part leaves alone.
ShutterFrame ==
    UNCHANGED <<chillerVars, lampVars, cscVars, seenVars, loopVars,
                protoVars, pollVars, blinkVars>>

\* A step that is no call of move_shutter and writes no channel.
NoShutterCall == shutter_call' = "none" /\ shutter_written' = {}

\* The switches change: the shutter moves, or a switch breaks.
SwitchesChange(open, closed) ==
    /\ shutter_switches # [open |-> open, closed |-> closed]
    /\ shutter_switches' = [open |-> open, closed |-> closed]
    /\ NoShutterCall
    /\ UNCHANGED <<shutter_pc, shutter_do_open, evt_shutterState,
                   do_open_shutter, shutter_enabled, shutter_events,
                   shutter_result>>
    /\ ShutterFrame

\* status_loop: the shutter state read is published and the events of the
\* active switches are set.
ShutterStatusPoll ==
    /\ evt_shutterState' =
          [evt_shutterState EXCEPT
              !.actualState = ShutterStateOf(shutter_switches.closed,
                                             shutter_switches.open)]
    /\ shutter_events' =
          [open |-> shutter_events.open \/ shutter_switches.open,
           closed |-> shutter_events.closed \/ shutter_switches.closed]
    /\ NoShutterCall
    /\ UNCHANGED <<shutter_pc, shutter_do_open, do_open_shutter,
                   shutter_enabled, shutter_switches, shutter_result>>
    /\ ShutterFrame

DesiredState(do_open) == IF do_open THEN "OPEN" ELSE "CLOSED"

\* move_shutter has nothing to do.
AlreadyDone(do_open) ==
    /\ evt_shutterState.commandedState = DesiredState(do_open)
    /\ evt_shutterState.actualState = DesiredState(do_open)

\* move_shutter refuses to move the shutter.
MoveShutterRefused_Never == FALSE
MoveShutterRefused == evt_shutterState.actualState = "INVALID"

\* move_shutter up to its first suspension point after the two writes to
\* the LabJack, which do not suspend.
MoveShutter(do_open) ==
    /\ shutter_pc = "idle"
    /\ shutter_call' = IF do_open THEN "open" ELSE "close"
    /\ shutter_do_open' = do_open
    /\ IF AlreadyDone(do_open)
         THEN /\ shutter_result' = "returned"
              /\ shutter_written' = {}
              /\ UNCHANGED <<shutter_pc, do_open_shutter, shutter_enabled>>
       ELSE IF MoveShutterRefused
         THEN /\ shutter_result' = "ExpectedError"
              /\ shutter_written' = {}
              /\ UNCHANGED <<shutter_pc, do_open_shutter, shutter_enabled>>
       ELSE /\ do_open_shutter' = do_open
            /\ shutter_enabled' = TRUE
            /\ shutter_written' = {"shutter_direction", "shutter_enable"}
            /\ shutter_pc' = "enabled"
            /\ shutter_result' = "running"
    /\ UNCHANGED <<evt_shutterState, shutter_switches, shutter_events>>
    /\ ShutterFrame

\* evt_shutterState.set_write(commandedState, enabled=True): the data set.
CommandedAndEnabled ==
    [evt_shutterState EXCEPT
        !.commandedState = DesiredState(shutter_do_open), !.enabled = TRUE]

\* move_shutter: the event is written and shutter_event cleared; wait_for
\* begins.
MoveShutterPublishes ==
    /\ shutter_pc = "enabled"
    /\ evt_shutterState' = CommandedAndEnabled
    /\ shutter_events' =
          IF shutter_do_open THEN [shutter_events EXCEPT !.open = FALSE]
          ELSE [shutter_events EXCEPT !.closed = FALSE]
    /\ shutter_pc' = "waiting"
    /\ NoShutterCall
    /\ UNCHANGED <<shutter_do_open, do_open_shutter, shutter_enabled,
                   shutter_switches, shutter_result>>
    /\ ShutterFrame

\* move_shutter is cancelled while it awaits the write of the event, before
\* the try statement.
MoveShutterCancelledEarly ==
    /\ shutter_pc = "enabled"
    /\ evt_shutterState' = CommandedAndEnabled
    /\ shutter_pc' = "idle"
    /\ shutter_result' = "CancelledError"
    /\ NoShutterCall
    /\ UNCHANGED <<shutter_do_open, do_open_shutter, shutter_enabled,
                   shutter_switches, shutter_events>>
    /\ ShutterFrame

\* The finally clause of move_shutter and the end of the call.
MoveShutterFinally(result) ==
    /\ shutter_enabled' = FALSE
    /\ shutter_written' = {"shutter_enable"}
    /\ evt_shutterState' = [evt_shutterState EXCEPT !.enabled = FALSE]
    /\ shutter_pc' = "idle"
    /\ shutter_result' = result
    /\ shutter_call' = "none"
    /\ UNCHANGED <<shutter_do_open, do_open_shutter, shutter_switches,
                   shutter_events>>
    /\ ShutterFrame

\* The event move_shutter waits for.
ShutterEventSet ==
    IF shutter_do_open THEN shutter_events.open ELSE shutter_events.closed

\* wait_for returns: the switch of the desired state was seen active.
MoveShutterEnds ==
    /\ shutter_pc = "waiting"
    /\ ShutterEventSet
    /\ MoveShutterFinally(IF evt_shutterState.actualState = "INVALID"
                            THEN "ExpectedError" ELSE "returned")

\* wait_for times out after shutter_timeout.
MoveShutterTimesOut ==
    /\ shutter_pc = "waiting"
    /\ ~ShutterEventSet
    /\ MoveShutterFinally("TimeoutError")

\* move_shutter is cancelled in wait_for.
MoveShutterCancelled ==
    /\ shutter_pc = "waiting"
    /\ MoveShutterFinally("CancelledError")

ShutterNext ==
    \/ \E open \in BOOLEAN : \E closed \in BOOLEAN :
          SwitchesChange(open, closed)
    \/ ShutterStatusPoll
    \/ \E do_open \in BOOLEAN : MoveShutter(do_open)
    \/ MoveShutterPublishes
    \/ MoveShutterCancelledEarly
    \/ MoveShutterEnds
    \/ MoveShutterTimesOut
    \/ MoveShutterCancelled

(***************************************************************************)
(* Part 7.  The status loop tasks LampModel.connect creates and            *)
(* LampModel.disconnect cancels.  The lamp is off, so basic_disconnect     *)
(* has no power to write.                                                  *)
(***************************************************************************)

\* Status loop tasks created in one behaviour.
MaxStatusLoops == 4

\* What a step of this part leaves alone.
PollFrame ==
    /\ UNCHANGED <<chillerVars, cscVars, seenVars, loopVars, protoVars,
                   shutterVars, blinkVars>>
    /\ UNCHANGED <<now, polled, labjack_ok, lamp_set_voltage, photosensor,
                   change_power_lock, power_waiters, lamp_was_on,
                   lamp_on_time, lamp_off_time, lamp_unexpectedly_on,
                   lamp_unexpectedly_off, lamp_on_future, lamp_off_future,
                   evt_lampState, data, pc, op, arg, deadline, ended, seen,
                   hw_off_at, cooldown_breach, lamp_ncalls>>

\* The status loop tasks that have not ended.
LiveStatusLoops ==
    {i \in DOMAIN status_loops : status_loops[i] # "ended"}

\* LampModel.connect, called whether or not the model is connected:
\* basic_disconnect(cancel_status_loop=False) closes the LabJack and
\* reports the disconnected state; basic_connect clears status_event,
\* connects the LabJack and creates a status loop task.
LmConnect ==
    /\ Len(status_loops) < MaxStatusLoops
    /\ status_event' = FALSE
    /\ labjack_connected' = TRUE
    /\ status_loops' = Append(status_loops, "sleep")
    /\ status_task' = Len(status_loops) + 1
    /\ PollFrame

\* Task.cancel() of self.status_task: a task that has not ended gets
\* CancelledError where it is suspended, and status_loop ends.
CancelStatusTask ==
    IF status_task \in DOMAIN status_loops
      THEN [status_loops EXCEPT ![status_task] = "ended"]
      ELSE status_loops

\* LampModel.disconnect(): basic_disconnect(cancel_status_loop=True).
LmDisconnect ==
    /\ labjack_connected
    /\ status_loops' = CancelStatusTask
    /\ status_event' = FALSE
    /\ labjack_connected' = FALSE
    /\ UNCHANGED status_task
    /\ PollFrame

\* status_loop of task i: labjack.read() under change_power_lock.
LoopReads(i) ==
    /\ status_loops[i] = "sleep"
    /\ status_loops' = [status_loops EXCEPT ![i] = "update"]
    /\ UNCHANGED <<status_task, labjack_connected, status_event>>
    /\ PollFrame

\* status_loop of task i: set_status and the writes of the events, up to
\* status_event.set() and the sleep.
LoopUpdates(i) ==
    /\ status_loops[i] = "update"
    /\ status_loops' = [status_loops EXCEPT ![i] = "sleep"]
    /\ status_event' = TRUE
    /\ UNCHANGED <<status_task, labjack_connected>>
    /\ PollFrame

LoopsNext ==
    \/ LmConnect
    \/ LmDisconnect
    \/ \E i \in DOMAIN status_loops : LoopReads(i)
    \/ \E i \in DOMAIN status_loops : LoopUpdates(i)

PollInit ==
    /\ status_loops = <<>>
    /\ status_task = 0

(***************************************************************************)
(* Part 8.  The decoding of the blinking error signal in                   *)
(* LampModel.status_loop.  Time is in ticks of 0.05 s.                     *)
(***************************************************************************)

\* lamp_base.STATUS_INTERVAL and ERROR_BLINKING_DURATION, in ticks.
STATUS_INTERVAL == 3
ERROR_BLINKING_DURATION == 20

\* The error signal of the controller: on and off for a blink, and off
\* after the last blink of a code, in ticks (MockLabJackInterface).
BlinkOn == 10
BlinkOff == 10
BlinkGap == 20

\* LampControllerError.NONE and UNKNOWN; the known errors are 1 to
\* MaxErrorCode.
ErrorNone == -1
ErrorUnknown == 0
MaxErrorCode == 2
KnownErrors == 1..MaxErrorCode

\* The last tick at which the status loop polls.
MaxBlinkTime == 200

BlinkInit ==
    /\ tai = 2 * ERROR_BLINKING_DURATION
    /\ controller = [code |-> ErrorNone, since |-> 0]
    /\ blinking_error_was_on = FALSE
    /\ blinking_error_off_time = 0
    /\ error_code_start_time = 0
    /\ blinking_error_gap_seen = FALSE
    /\ controllerError = ErrorUnknown
    /\ blink_status_event = FALSE

\* What a step of this part leaves alone.
BlinkFrame ==
    UNCHANGED <<chillerVars, lampVars, cscVars, seenVars, loopVars,
                protoVars, shutterVars, pollVars>>

\* data.error_exists
error_exists == controller.code # ErrorNone

\* The ticks of one report of the code and of the pause after it.
CodeTicks(code) == code * (BlinkOn + BlinkOff)
CycleTicks(code) == CodeTicks(code) + BlinkGap

\* data.blinking_error at time t: blinking_error_loop blinks the code, each
\* blink on and then off, pauses and repeats.
blinking_error(t) ==
    /\ controller.code > 0
    /\ t >= controller.since
    /\ LET p == (t - controller.since) % CycleTicks(controller.code)
       IN  /\ p < CodeTicks(controller.code)
           /\ p % (BlinkOn + BlinkOff) < BlinkOn

\* MockLabJackInterface.set_error with an error code: the controller shows
\* an error and begins to blink it, delay ticks after the last poll.
SetError(code, delay) ==
    /\ controller = [code |-> ErrorNone, since |-> 0]
    /\ controller' = [code |-> code,
                      since |-> tai - STATUS_INTERVAL + delay]
    /\ UNCHANGED <<tai, blinking_error_was_on, blinking_error_off_time,
                   error_code_start_time, blinking_error_gap_seen,
                   controllerError, blink_status_event>>
    /\ BlinkFrame

\* set_error(LampControllerError.NONE): the error clears.
ClearError ==
    /\ error_exists
    /\ controller' = [controller EXCEPT !.code = ErrorNone]
    /\ UNCHANGED <<tai, blinking_error_was_on, blinking_error_off_time,
                   error_code_start_time, blinking_error_gap_seen,
                   controllerError, blink_status_event>>
    /\ BlinkFrame

\* int(round(ticks / 20, 0)) for ticks >= 0: Python rounds a half to even.
RoundSeconds(ticks) ==
    LET q == ticks \div ERROR_BLINKING_DURATION
        r == 2 * (ticks % ERROR_BLINKING_DURATION)
    IN  IF r < ERROR_BLINKING_DURATION THEN q
        ELSE IF r > ERROR_BLINKING_DURATION THEN q + 1
        ELSE IF q % 2 = 0 THEN q
        ELSE q + 1

\* LampControllerError(int_code_duration), UNKNOWN on ValueError.
DecodedError(int_code_duration) ==
    IF int_code_duration \in KnownErrors \cup {ErrorNone, ErrorUnknown}
      THEN int_code_duration
      ELSE ErrorUnknown

\* One iteration of status_loop at time tai, then the sleep.
BlinkPoll ==
    /\ tai <= MaxBlinkTime
    /\ IF ~error_exists
         THEN /\ controllerError' = ErrorNone
              /\ error_code_start_time' = 0
              /\ blinking_error_off_time' = 0
              /\ blinking_error_was_on' = FALSE
              /\ blinking_error_gap_seen' = TRUE
       ELSE IF blinking_error(tai)
         THEN /\ error_code_start_time' =
                    IF /\ ~blinking_error_was_on
                       /\ blinking_error_gap_seen
                       /\ tai - blinking_error_off_time
                             > ERROR_BLINKING_DURATION
                      THEN tai
                      ELSE error_code_start_time
              /\ controllerError' =
                    IF blink_status_event /\ controllerError = ErrorNone
                      THEN ErrorUnknown
                      ELSE controllerError
              /\ blinking_error_was_on' = TRUE
              /\ UNCHANGED <<blinking_error_off_time,
                             blinking_error_gap_seen>>
       ELSE IF blinking_error_was_on
         THEN /\ blinking_error_off_time' = tai
              /\ blinking_error_was_on' = FALSE
              /\ UNCHANGED <<error_code_start_time, controllerError,
                             blinking_error_gap_seen>>
       ELSE IF /\ tai - blinking_error_off_time >= ERROR_BLINKING_DURATION
               /\ error_code_start_time > 0
         THEN /\ controllerError' =
                    DecodedError(RoundSeconds(
                        BlinkOff + blinking_error_off_time
                        - error_code_start_time))
              /\ error_code_start_time' = 0
              /\ blinking_error_was_on' = FALSE
              /\ UNCHANGED <<blinking_error_off_time,
                             blinking_error_gap_seen>>
       ELSE /\ blinking_error_was_on' = FALSE
            /\ UNCHANGED <<error_code_start_time, controllerError,
                           blinking_error_off_time,
                           blinking_error_gap_seen>>
    /\ blink_status_event' = TRUE
    /\ tai' = tai + STATUS_INTERVAL
    /\ UNCHANGED controller
    /\ BlinkFrame

BlinkNext ==
    \/ \E code \in 1..(MaxErrorCode + 1) : \E delay \in 1..STATUS_INTERVAL :
          SetError(code, delay)
    \/ ClearError
    \/ BlinkPoll

CmInit ==
    SeenInit /\ LoopInit /\ ProtoInit /\ ShutterInit /\ PollInit /\ BlinkInit

Init == ChillerInit /\ LampInit /\ CscInit /\ CmInit

(***************************************************************************)
(* Part 10.  The lamp with LabJack calls that raise, followed to the end   *)
(* of every wait_for.                                                      *)
(***************************************************************************)

\* The LabJack answers again: the failure was transient.
LabJackRecovers ==
    /\ labjack_connected
    /\ ~labjack_ok
    /\ labjack_ok' = TRUE
    /\ ended' = {}
    /\ cooldown_breach' = FALSE
    /\ UNCHANGED <<photosensor, modelVars>>

\* A command is sent early enough for its wait_for to end by MaxTime.
InTime ==
    now + Max(max_lamp_on_delay, max_lamp_off_delay)
        + ONOFF_COMMAND_TIMEOUT_MARGIN <= MaxTime

\* An actor that has change_power_lock runs its labjack.write.
LockedWrite(a) ==
    \/ a \in Tasks /\ TurnLampOnWrites(a)
    \/ a \in Tasks /\ TurnLampOffWrites(a)
    \/ LabJackWriteFails(a)
    \/ DisconnectWrites(a)

\* One command handler sends turnLampOn and turnLampOff (do_turnLampOff
\* calls turn_lamp_off with wait=True) while the status loop polls a
\* LabJack whose reads and writes may raise for a while.
WriteFailNext ==
    \/ Connect
    \/ StatusPoll
    \/ LabJackReadFails
    \/ SetStatus
    \/ ResolveFutures
    \/ ForceOffWrites
    \/ ForceOffFails
    \/ InTime /\ TurnLampOn("t1", MIN_POWER)
    \/ InTime /\ TurnLampOff("t1", TRUE, TRUE)
    \/ \E a \in Actors : LockedWrite(a)
    \/ \E a \in Actors : DisconnectCloses(a)
    \/ AwaitTimeout("t1")
    \/ Tick
    \/ LightOn
    \/ LightOff
    \/ LabJackBreaks
    \/ LabJackRecovers

\* The event loop runs every task that is ready: the status loop polls,
\* a task that has the lock writes, a wait_for that is due times out, and
\* time passes.
WriteFailFairness ==
    /\ WF_vars(StatusPoll \/ LabJackReadFails)
    /\ WF_vars(SetStatus)
    /\ WF_vars(ResolveFutures)
    /\ WF_vars(ForceOffWrites \/ ForceOffFails)
    /\ \A a \in Actors : WF_vars(LockedWrite(a))
    /\ \A a \in Actors : WF_vars(DisconnectCloses(a))
    /\ SF_vars(AwaitTimeout("t1"))
    /\ SF_vars(Tick)

(***************************************************************************)
(* Part 9.  The status callback inside the status loop.  set_status ends   *)
(* with call_status_callback (lamp_model.py), which awaits                 *)
(* ATWhiteLightCsc.status_callback; a fault() in it awaits                 *)
(* handle_summary_state, and that calls                                    *)
(* turn_lamp_off(force=True, wait=False), all in the status loop's task.   *)
(***************************************************************************)

\* set_status from the handling of the futures to the end of the poll, in
\* a poll that published a change: the status callback runs and goes to
\* FAULT (err: the lamp controller reports an error).  handle_summary_state
\* then calls turn_lamp_off, which returns at once, awaits a pending
\* lamp_off_future, or makes a new lamp_off_future and writes power 0.
PollCallsBack(err) ==
    /\ pc["status"] = "resolve"
    /\ ~ForceOff
    /\ LabJackWorks
    /\ LET onOut == OnOutcome(evt_lampState.basicState)
           offOut == OffOutcome(evt_lampState.basicState)
           onF == Settled(lamp_on_future, onOut)
           offF == Settled(lamp_off_future, offOut)
           code == status_callback(chiller_configured, chiller_watchdog, err)
           onAll == IF onOut # "pending" THEN onOut ELSE "SupersededByOff"
       IN  /\ code # "NONE"
           /\ summary_state' = "FAULT"
           /\ IF ~lamp_connected \/ NothingToTurnOff
                THEN /\ lamp_on_future' = onF
                     /\ lamp_off_future' = offF
                     /\ Resume(onOut, offOut, "status", "sleep", "loop", NoArg,
                               0, {Rec("status", "fault", code)})
                     /\ status_event' = TRUE
                     /\ polled' = TRUE
                     /\ NoHwWrite
                     /\ UNCHANGED <<power_waiters, lamp_unexpectedly_off>>
              ELSE IF offF = "pending"
                THEN /\ lamp_on_future' = onF
                     /\ lamp_off_future' = offF
                     /\ Resume(onOut, offOut, "status", "await_off_plain",
                               "fault", NoArg, 0, {})
                     /\ NoHwWrite
                     /\ UNCHANGED <<power_waiters, lamp_unexpectedly_off,
                                    status_event, polled>>
              ELSE /\ lamp_unexpectedly_off' = FALSE
                   /\ lamp_on_future' = Settled(onF, "SupersededByOff")
                   /\ lamp_off_future' = "pending"
                   /\ IF LampCanAcquire
                        THEN /\ Resume(onAll, offOut, "status", "sleep", "loop",
                                       NoArg, 0, {Rec("status", "fault", code)})
                             /\ HwWrite(0)
                             /\ status_event' = TRUE
                             /\ polled' = TRUE
                             /\ UNCHANGED power_waiters
                        ELSE /\ Resume(onAll, offOut, "status", "lockwait",
                                       "fault", NoArg, 0, {})
                             /\ power_waiters' = Append(power_waiters, "status")
                             /\ NoHwWrite
                             /\ UNCHANGED <<status_event, polled>>
    /\ UNCHANGED <<should_be_connected, chiller_configured, chiller_watchdog>>
    /\ UNCHANGED <<labjack_connected, change_power_lock, lamp_unexpectedly_on,
                   data, lamp_ncalls, trackVars>>
    /\ UNCHANGED <<now, photosensor, labjack_ok, chillerVars, cmVars>>

\* The turn_lamp_off of the status callback gets the lock and writes power
\* 0; with wait=False it returns, the callback returns and the poll ends.
CallbackOffWrites ==
    /\ LockHead("status")
    /\ op["status"] = "fault"
    /\ LabJackWorks
    /\ HwWrite(0)
    /\ power_waiters' = Tail(power_waiters)
    /\ Resume("pending", "pending", "status", "sleep", "loop", NoArg, 0,
              {Rec("status", "fault", "ok")})
    /\ status_event' = TRUE
    /\ polled' = TRUE
    /\ UNCHANGED <<labjack_connected, change_power_lock, lamp_unexpectedly_on,
                   lamp_unexpectedly_off, lamp_on_future, lamp_off_future, data,
                   lamp_ncalls>>
    /\ UNCHANGED <<trackVars, envVars>>

\* The enabled CSC with the status callback run by the status loop: the
\* CSC is started and enabled, commands turn the lamp on and off, the
\* chiller's watchdog changes, and a poll that published a change calls
\* the status callback.  The LabJack works and stays connected.
CallbackNext ==
    \/ ~Handling /\ lamp_ncalls = 0 /\ DoStart
    \/ ~Handling /\ ConnectLamp
    \/ ~Handling /\ LampIsConnected
    \/ ~Handling /\ DoEnable
    \/ FaultTurnsLampOff
    \/ ~Handling /\ \E wd \in WatchdogStates : ChillerReports(wd)
    \/ ~Handling /\ \E power \in CscPowers : DoTurnLampOn("t1", power)
    \/ ~Handling /\ CscTurnLampOn("t1")
    \/ ~Handling /\ \E force \in BOOLEAN : DoTurnLampOff("t1", force)
    \/ ~Handling /\ CscTurnLampOff("t1")
    \/ ~Handling /\ StatusPoll
    \/ ~Handling /\ SetStatus
    \/ ~Handling /\ ResolveFutures
    \/ ~Handling /\ \E err \in BOOLEAN : PollCallsBack(err)
    \/ ~Handling /\ ForceOffWrites
    \/ ~Handling /\ CallbackOffWrites
    \/ ~Handling /\ \E t \in Tasks : TurnLampOnWrites(t)
    \/ ~Handling /\ \E t \in Tasks : TurnLampOffWrites(t)
    \/ ~Handling /\ \E t \in Tasks : AwaitTimeout(t)
    \/ lamp_ncalls > 0 /\ Tick
    \/ ~Handling /\ LightOn
    \/ ~Handling /\ lamp_set_voltage = 0 /\ LightOff

SpecChiller == Init /\ [][ChillerNext]_vars

\* The event loop runs every task that is ready, the chiller answers, and
\* wait_for ends a read that gets no reply.
ChillerFairness ==
    /\ \A p \in Callers : WF_vars(RunCommandWake(p))
    /\ \A p \in Callers : WF_vars(RunCommandReply(p) \/ RunCommandTimeout(p)
                                   \/ RunCommandReadFails(p))

SpecChillerFair == Init /\ [][ChillerNext]_vars /\ ChillerFairness

SpecLamp == Init /\ [][LampNext]_vars

SpecLampFault == Init /\ [][LampFaultNext]_vars

SpecCsc == Init /\ [][CscNext]_vars

SpecCm == Init /\ [][CmNext]_vars

SpecCmAgain == Init /\ [][CmAgainNext]_vars

SpecFrames == Init /\ [][FramesNext]_vars

SpecConfigure == Init /\ [][ConfigureNext]_vars
SpecShutter == Init /\ [][ShutterNext]_vars
SpecLoops == Init /\ [][LoopsNext]_vars
SpecBlink == Init /\ [][BlinkNext]_vars
SpecMasks == Init /\ [][MasksNext]_vars
SpecCallback == Init /\ [][CallbackNext]_vars
SpecLampOne == Init /\ [][LampOneNext]_vars

SpecLampPower == Init /\ [][LampPowerNext]_vars
SpecWriteFail == Init /\ [][WriteFailNext]_vars /\ WriteFailFairness

SpecSeen == Init /\ [][SeenNext]_vars

Spec == SpecLamp
(***************************************************************************)
(* Claims                                                                  *)
(***************************************************************************)

\* C1: on one ChillerClient connection at most one command is in flight:
\* between a call writing its command and that call getting the reply or
\* timing out, no other run_command call has written, whatever the
\* interleaving of the watchdog loop, the telemetry loop and user commands.
C1_OneCommandInFlight ==
    Cardinality({p \in Callers : cpc[p] = "inflight"}) <= 1

\* C1 witness: one call is in flight while two others queue for the lock.
C1_Witness ==
    \E p \in Callers :
        /\ cpc[p] = "inflight"
        /\ \A q \in Callers \ {p} : cpc[q] = "waiting"

\* C2 (as claimed): the reply a call returns, and that ChillerModel then
\* dispatches, is the reply to the command the same call wrote, also after
\* an earlier call timed out and its reply arrived late.
C2_ReplyAnswersOwnCommand ==
    \A p \in Callers : cres[p] = "ok" => cret[p] = ccmd[p]

\* C3: when a call times out the communication lock is released, and a call
\* waiting for the lock goes on to write its command (unless the client was
\* disconnected meanwhile).
C3_TimeoutReleasesLock ==
    /\ [](\A p \in Callers : cpc[p] = "idle" => communication_lock # p)
    /\ \A p \in Callers :
          (cpc[p] = "waiting") ~> (cpc[p] = "inflight" \/ client_state = "closed")

\* C3 witness: a call that queued for the lock behind a call that timed out
\* has written its command.
C3_Witness ==
    \E p \in Callers : cpc[p] = "inflight" /\ woken_after[p] = "timeout"


\* Steps of the status loop the claims speak of.
SetStatusStep == pc["status"] = "gotdata" /\ pc'["status"] = "resolve"
ResolveStep == pc["status"] = "resolve" /\ pc'["status"] # "resolve"

\* C4 (as claimed): with no UNEXPECTEDLY_ON / UNEXPECTEDLY_OFF fault in
\* between, the lamp set voltage never goes from 0 to a nonzero value less
\* than cooldown_period after it went from nonzero to 0, in any interleaving
\* of turn_lamp_on, turn_lamp_off and the status polls.
C4_CooldownInterlock == ~cooldown_breach

\* C5 (as claimed): a turn_lamp_off issued while a turn_lamp_on is pending
\* is never silently ignored: it never returns at `if not self.lamp_was_on`
\* leaving the on-future pending and the lamp power as it was.
C5_OffNeverIgnored ==
    \A t \in Tasks : Rec(t, "off", "ignored") \notin ended

\* C6: at most one of lamp_on_future and lamp_off_future is pending in
\* every reachable state, and a turn_lamp_on is accepted only when no
\* turn_lamp_on is pending.
C6_OneFuturePending ==
    /\ [](~(lamp_on_future = "pending" /\ lamp_off_future = "pending"))
    /\ [][\A t \in Tasks :
             (pc[t] = "idle" /\ op'[t] = "on") => lamp_on_future # "pending"]_vars

\* C6 witness: a second turn_lamp_on was rejected while the first is
\* pending.
C6_Witness ==
    /\ lamp_on_future = "pending"
    /\ \E t \in Tasks : Rec(t, "on", "already_on") \in ended
    /\ \E t \in Tasks : pc[t] = "await_on"

\* C7 (as claimed): once the status loop has ended, and once disconnect()
\* has returned, neither lamp_on_future nor lamp_off_future is pending, and
\* after disconnect() the status task does not run.
C7_NothingPendingAfterEnd ==
    /\ pc["status"] = "none" =>
          lamp_on_future # "pending" /\ lamp_off_future # "pending"
    /\ \A t \in Tasks :
          Rec(t, "disconnect", "ok") \in ended =>
              /\ pc["status"] = "none"
              /\ lamp_on_future # "pending" /\ lamp_off_future # "pending"

\* C8 (as claimed): a turn_lamp_on call returns normally only after a
\* status poll that read the LabJack after the call's power write reported
\* WARMUP or ON.
C8_OnReturnsAfterFreshPoll ==
    [][\A t \in Tasks : Rec(t, "on", "ok") \in ended' => seen[t] # "none"]_vars

\* C9 (as claimed): if no poll reports light within max_lamp_on_delay of a
\* turn_lamp_on, UNEXPECTEDLY_OFF is reported and fails the on-future (so
\* the call never runs into its timeout with no light seen), power 0 is
\* commanded, lamp_off_time is 0, and the next state with no light is OFF.
C9_FailsToTurnOn ==
    /\ [][\A t \in Tasks :
             Rec(t, "on", "timeout") \in ended' => seen[t] = "light"]_vars
    /\ [](evt_lampState.basicState = "UNEXPECTEDLY_OFF" =>
             lamp_off_time = 0 /\ evt_lampState.cooldownEndTime = 0)
    /\ [][(ResolveStep /\ evt_lampState.basicState = "UNEXPECTEDLY_OFF") =>
             /\ lamp_on_future' # "pending"
             /\ pc'["status"] = "lockwait" /\ op'["status"] = "forceoff"]_vars
    /\ [][(SetStatusStep /\ evt_lampState.basicState = "UNEXPECTEDLY_OFF"
              /\ ~data.light) =>
             evt_lampState'.basicState = "OFF"]_vars

\* C10 (as claimed): if light is still reported max_lamp_off_delay after
\* the lamp was commanded off, UNEXPECTEDLY_ON is reported and fails the
\* off-future (so a waiting turn_lamp_off never runs into its timeout while
\* light is reported), lamp_off_time and cooldownEndTime are 0, and the
\* state stays UNEXPECTEDLY_ON for as long as light is seen and the lamp is
\* not commanded on.
C10_FailsToTurnOff ==
    /\ [][\A t \in Tasks :
             Rec(t, "off", "timeout") \in ended' =>
                 ~evt_lampState.lightDetected]_vars
    /\ [](evt_lampState.basicState = "UNEXPECTEDLY_ON" =>
             lamp_off_time = 0 /\ evt_lampState.cooldownEndTime = 0)
    /\ [][(ResolveStep /\ evt_lampState.basicState = "UNEXPECTEDLY_ON") =>
             lamp_off_future' # "pending"]_vars
    /\ [][(SetStatusStep /\ evt_lampState.basicState = "UNEXPECTEDLY_ON"
              /\ data.light /\ data.volt = 0) =>
             evt_lampState'.basicState = "UNEXPECTEDLY_ON"]_vars


\* A call of turn_lamp_on by t that the checks of turn_lamp_on refuse.
MustRefuseOn(t, power) ==
    /\ pc[t] = "idle"
    /\ \/ power < MIN_POWER \/ power > MAX_POWER
       \/ remaining_cooldown(lamp_off_time) > 0
       \/ lamp_on_future = "pending"

\* The step of a call of turn_lamp_on by t that raises ExpectedError and
\* does nothing else.
OnRefusedStep(t) ==
    /\ \E why \in {"already_on", "bad_power", "cooling"} :
           ended' = {Rec(t, "on", why)}
    /\ pc'[t] = "idle"
    /\ UNCHANGED <<lamp_set_voltage, power_waiters, lamp_on_future,
                   lamp_off_future, lamp_on_time, lamp_off_time>>

\* C11: turn_lamp_on raises ExpectedError, writes nothing to the LabJack and
\* leaves both futures and the on/off times unchanged when the power is
\* outside [800, 1200] W, when the remaining cooldown is > 0, or when an
\* earlier turn_lamp_on is still pending: in no state can such a call take
\* a step that is anything else.
C11_TurnLampOnRefusals ==
    \A t \in Tasks : \A power \in Powers :
        MustRefuseOn(t, power) =>
            ~ENABLED (TurnLampOn(t, power) /\ ~OnRefusedStep(t))

\* C11 witness: a turn_lamp_on was refused because the lamp is cooling
\* down.
C11_Witness ==
    /\ \E t \in Tasks : Rec(t, "on", "cooling") \in ended
    /\ remaining_cooldown(lamp_off_time) > 0
    /\ lamp_set_voltage = 0

\* The lamp is on and warming up, and is not being turned off.
WarmingUp ==
    /\ lamp_was_on = "True"
    /\ lamp_off_future # "pending"
    /\ warmup_period - (now - lamp_on_time) > 0

\* The step of a call of turn_lamp_off by t that raises ExpectedError and
\* does nothing else.
OffRefusedStep(t) ==
    /\ ended' = {Rec(t, "off", "warming")}
    /\ pc'[t] = "idle"
    /\ UNCHANGED <<lamp_set_voltage, power_waiters, lamp_on_future,
                   lamp_off_future>>

\* The step of a call of turn_lamp_off(wait) by t that is accepted: a
\* pending on-future is failed, the off-future is created, and power 0 is
\* written (after which the call returns, or waits for the off-future) or
\* the call queues for the lock to write it.
OffAcceptedStep(t, wait) ==
    /\ lamp_on_future' # "pending"
    /\ lamp_off_future' = "pending"
    /\ \/ /\ lamp_set_voltage' = 0
          /\ IF wait THEN pc'[t] = "await_off"
                     ELSE Rec(t, "off", "ok") \in ended'
       \/ /\ pc'[t] = "lockwait" /\ op'[t] = "off"
          /\ arg'[t] = [power |-> 0, wait |-> wait]
          /\ lamp_set_voltage' = lamp_set_voltage

\* C12: turn_lamp_off(force=False) while the lamp is on and its remaining
\* warmup is > 0 raises ExpectedError and leaves the lamp power and both
\* futures unchanged; with force=True the same call is accepted and
\* commands power 0 (at once, or when it gets the lock).
C12_WarmupGuardsTurnOff ==
    /\ \A t \in Tasks : \A wait \in BOOLEAN :
          (WarmingUp /\ pc[t] = "idle") =>
              /\ ~ENABLED (TurnLampOff(t, FALSE, wait) /\ ~OffRefusedStep(t))
              /\ ~ENABLED (TurnLampOff(t, TRUE, wait) /\ ~OffAcceptedStep(t, wait))
    /\ \A t \in Tasks :
          (pc[t] = "lockwait" /\ op[t] = "off") =>
              ~ENABLED (TurnLampOffWrites(t) /\ lamp_set_voltage' # 0)

\* C12 witness: during warmup an unforced turn_lamp_off was refused with
\* the lamp power on.
C12_Witness ==
    /\ WarmingUp
    /\ \E t \in Tasks : Rec(t, "off", "warming") \in ended
    /\ lamp_set_voltage > 0

\* The error codes status_callback faults with because of the chiller.
ChillerFaultCodes ==
    {"CHILLER_ERROR", "CHILLER_DISCONNECTED", "NOT_CHILLING_WITH_LAMP_ON"}

\* The CSC, enabled, has just gone to FAULT because of the chiller, with
\* the lamp connected and commanded on; its fault handling runs next.
FaultedWithLampOn ==
    /\ pc["t2"] = "called"
    /\ op["t2"] = "fault"
    /\ \E code \in ChillerFaultCodes : Rec("t2", "ENABLED", code) \in ended
    /\ lamp_connected
    /\ lamp_set_voltage > 0

\* Lamp power 0 is commanded: the register is written 0, or a turn_lamp_off
\* waits for change_power_lock to write it.
PowerZeroCommanded ==
    \/ lamp_set_voltage' = 0
    \/ \E t \in Tasks : pc'[t] = "lockwait" /\ op'[t] = "off"

\* C13: when the CSC, enabled with both devices connected and the lamp
\* commanded on, goes to FAULT because the chiller reports an alarm,
\* disconnects, leaves RUN or stops its pump, its fault handling commands
\* lamp power 0.
C13_ChillerFaultTurnsLampOff ==
    [][FaultedWithLampOn => PowerZeroCommanded]_vars

\* do_turnLampOn is rejected: it raises, task t is idle again and nothing
\* is written to the LabJack.
TurnLampOnRejectedStep(t) ==
    /\ ended' = {Rec(t, "turnLampOn", "rejected")}
    /\ pc'[t] = "idle"
    /\ UNCHANGED <<lamp_set_voltage, lamp_on_future, lamp_off_future>>

\* The lamp is connected and the chiller is connected, reports no alarm,
\* is in the RUN state and its pump is running.
ReadyForLamp ==
    /\ lamp_connected
    /\ chiller_connected
    /\ ~chiller_watchdog.alarmsPresent
    /\ chiller_watchdog.controllerState = "RUN"
    /\ chiller_watchdog.pumpRunning

\* C14: a do_turnLampOn called when the lamp is not connected, or the
\* chiller is not connected, reports an alarm, is not in RUN or has its
\* pump stopped, is rejected and writes nothing; only a call that found
\* all of these in order goes on to turn_lamp_on, the one place where
\* do_turnLampOn writes a power.
C14_TurnLampOnNeedsChiller ==
    /\ \A power \in CscPowers :
          (pc["t1"] = "idle" /\ ~ReadyForLamp) =>
              ~ENABLED (DoTurnLampOn("t1", power) /\ ~TurnLampOnRejectedStep("t1"))
    /\ \A power \in CscPowers :
          ~ENABLED (/\ DoTurnLampOn("t1", power)
                    /\ lamp_set_voltage' # lamp_set_voltage)

\* A turnLampOn was just rejected with the CSC enabled and the lamp
\* connected, because the chiller's pump is not running.
C14_Witness ==
    /\ Rec("t1", "turnLampOn", "rejected") \in ended
    /\ summary_state = "ENABLED"
    /\ lamp_connected
    /\ chiller_watchdog = ChillerPumpOff
    /\ lamp_set_voltage = 0

\* do_stopChiller is rejected: it raises without sending stop_cooling.
StopChillerRejectedStep == ended' = {Rec("csc", "stopChiller", "rejected")}

\* do_stopChiller succeeds: stop_cooling was sent.
StopChillerAcceptedStep == ended' = {Rec("csc", "stopChiller", "ok")}

\* C15: with the lamp connected and either commanded on or with a remaining
\* cooldown > 0, do_stopChiller is rejected; with the CSC enabled, the
\* chiller connected, the lamp off and no cooldown remaining it succeeds.
C15_StopChillerNeedsLampOff ==
    /\ (/\ lamp_connected
        /\ lamp_set_voltage > 0 \/ get_remaining_cooldown > 0) =>
           ~ENABLED (DoStopChiller /\ ~StopChillerRejectedStep)
    /\ (/\ summary_state = "ENABLED"
        /\ chiller_connected
        /\ lamp_connected
        /\ lamp_set_voltage = 0
        /\ evt_lampState.basicState = "OFF"
        /\ get_remaining_cooldown = 0) =>
           ~ENABLED (DoStopChiller /\ ~StopChillerAcceptedStep)

\* The standby command is rejected: begin_standby raises, the summary
\* state stays and nothing is disconnected or written.
StandbyRejectedStep ==
    /\ ended' = {Rec("t2", "standby", "rejected")}
    /\ pc'["t2"] = "idle"
    /\ UNCHANGED <<summary_state, should_be_connected, chiller_configured,
                   labjack_connected, lamp_set_voltage>>

\* C16: with the lamp connected and a remaining cooldown > 0 the standby
\* command is rejected and the summary state is unchanged; with no
\* cooldown remaining, no lamp controller error and no chiller alarm
\* reported, the standby command takes the CSC to STANDBY.
C16_NoStandbyWhileCooling ==
    /\ \A err \in BOOLEAN :
          (/\ pc["t2"] = "idle"
           /\ summary_state \in {"DISABLED", "FAULT"}
           /\ lamp_connected
           /\ get_remaining_cooldown > 0) =>
              ~ENABLED (DoStandby(err) /\ ~StandbyRejectedStep)
    /\ (/\ pc["t2"] = "idle"
        /\ summary_state \in {"DISABLED", "FAULT"}
        /\ get_remaining_cooldown = 0
        /\ ~chiller_watchdog.alarmsPresent) =>
           ~ENABLED (DoStandby(FALSE) /\ summary_state' # "STANDBY")

\* A standby command was just rejected in FAULT with the lamp connected and
\* cooling down and no chiller alarm.
C16_Witness ==
    /\ Rec("t2", "standby", "rejected") \in ended
    /\ summary_state = "FAULT"
    /\ lamp_connected
    /\ get_remaining_cooldown > 0
    /\ ~chiller_watchdog.alarmsPresent

\* The telemetry topics written once all of their fields were seen.
TelemetryGroups ==
    {"tel_chillerFanSpeeds", "tel_chillerTemperatures",
     "tel_chillerTECBankCurrents"}

\* The seen set of a topic.
SeenOf(topic) ==
    CASE topic = "tel_chillerFanSpeeds" -> seen_fan_speeds
      [] topic = "tel_chillerTemperatures" -> seen_temperatures
      [] topic = "tel_chillerTECBankCurrents" -> seen_tec_bank_currents
      [] OTHER -> seen_alarms

AlarmReads == <<"18rAlrmLv1", "19rAlrmLv21", "19rAlrmLv22">>

\* The alarm reads a call of handle_watchdog has issued.
AlarmReadsOf(f) == SelectSeq(f.reads, LAMBDA c : c # "20rWarnLv1")

IsPrefix(s, t) == Len(s) <= Len(t) /\ s = SubSeq(t, 1, Len(s))

\* C18: a call of handle_watchdog for a reply with alarmsPresent issues the
\* reads L1, L2 sublevel 1, L2 sublevel 2 in that order; when the third has
\* returned evt_chillerAlarms was written once since the call began, and
\* that after the third read was issued;
\* the status callback of the call comes after the three reads and that one
\* write.  A call for a reply without alarmsPresent issues no alarm read
\* and has written the zeroed alarm record.
C18_AlarmCascade ==
    /\ \A t \in CmTasks : \A i \in 1..Len(stack[t]) :
          LET f == stack[t][i]
          IN  IF f.alarmsPresent
                THEN IsPrefix(AlarmReadsOf(f), AlarmReads)
                ELSE AlarmReadsOf(f) = <<>> /\ f.writes >= 1
    /\ \A t \in CmTasks :
          (tpc[t] = "returned" /\ stack[t] # <<>> /\ Top(t).pos = "l22") =>
             /\ Top(t).writes = 1
             /\ Top(t).write_reads = Len(AlarmReads)
    /\ \A c \in status_called :
          c.by = "handle_watchdog" =>
             LET f == c.frames[1]
             IN  IF f.alarmsPresent
                   THEN /\ AlarmReadsOf(f) = AlarmReads
                        /\ f.writes = 1
                        /\ f.write_reads = Len(AlarmReads)
                   ELSE AlarmReadsOf(f) = <<>> /\ f.writes >= 1

\* A call of handle_watchdog whose set_write changed evt_chillerWatchdog
\* ends in this step.
ChangedWatchdogEnds(t) ==
    /\ stack[t] # <<>>
    /\ Top(t).did_change
    /\ Len(stack'[t]) < Len(stack[t])

\* C19: a call of handle_watchdog whose watchdog reply changed the
\* published watchdog record does not end without the status callback being
\* called, also when one of its follow-up reads fails or times out.
C19_ChangeCallsStatusCallback ==
    [][\A t \in CmTasks : ChangedWatchdogEnds(t) => status_called' # {}]_vars

\* ChillerModel.disconnect was run: evt_chillerConnected is false, the
\* client is closed and both loops are stopped.
FullyDisconnected ==
    /\ disconnect_task = "done"
    /\ ~evt_chillerConnected
    /\ cm_client = "closed"
    /\ \A t \in LoopTasks : tpc[t] = "ended"

\* C20: the loops end only with a full disconnect: once the connection is
\* lost or a periodic command has failed and both loops have ended,
\* disconnect() was run, or the task that runs it was created, and the
\* connection is not open again.
C20_LoopsEndWithDisconnect ==
    (\A t \in LoopTasks : tpc[t] = "ended") =>
        \/ disconnect_task = "scheduled"
        \/ FullyDisconnected

\* The meaning the error of a rejected command names, by error digit.
ErrorMeaning ==
    "1" :> "checksum error" @@
    "2" :> "invalid command name" @@
    "3" :> "parameter out of range" @@
    "4" :> "invalid message length" @@
    "5" :> "sensor or feature not configured or used"

\* run_command raises for a reply with this error digit, naming its
\* meaning, and no handler ran: no topic was written, no seen set changed.
RejectedStep(error_code) ==
    /\ raised'.type = "RuntimeError"
    /\ raised'.code = error_code
    /\ error_code \in DOMAIN ErrorMeaning =>
          raised'.descr = ErrorMeaning[error_code]
    /\ written' = {}
    /\ UNCHANGED <<seen_fan_speeds, seen_temperatures, seen_tec_bank_currents,
                   seen_alarms, since_write, evt_chillerWatchdog>>

\* C21: whichever reply a run_command call reads, if its error digit is not
\* "0" the call raises an error that names the digit's meaning (1 checksum,
\* 2 invalid command, 3 parameter out of range, 4 invalid length, 5 sensor
\* not configured), no handler is given the data, and no topic and no seen
\* set changes.
C21_ErrorDigitRaises ==
    \A t \in CmTasks : \A error_code \in ErrorDigits \ {"0"} :
        (tpc[t] = "inflight" /\ wire # <<>>) =>
            ~ENABLED (/\ run_command_reply(t, Head(wire), error_code)
                      /\ ~RejectedStep(error_code))

\* A watchdog reply with error digit 5 was rejected while the temperatures
\* were partly seen.
C21_Witness ==
    /\ raised = Err("RuntimeError", "5", ErrorMeaning["5"])
    /\ seen_temperatures = {"setTemperature"}
    /\ tcmd["watchdog"] = "01WatchDog"
    /\ tpc["watchdog"] = "ended"

\* n below 256 as two hex digits.
TwoHexDigits(n) == <<HexDigits[(n \div 16) + 1], HexDigits[(n % 16) + 1]>>

\* '.' + device_id + body + checksum + '\r', the checksum being the sum of
\* the bytes before it modulo 256, as two hex digits.
FullCommandOf(body) ==
    LET start == <<".">> \o device_id \o body
    IN  start \o TwoHexDigits(SumOrd(start) % 256) \o <<"\r">>

\* C30: format_full_command accepts exactly the bodies of 10 to 18
\* characters: for any other length it raises and nothing is sent; for
\* these lengths what is sent is '.' + device_id + body + checksum + '\r',
\* with the checksum the sum of the preceding bytes modulo 256 as two hex
\* digits.
C30_FullCommand ==
    [][(cm_client = "connected" /\ sent = <<>> /\ reply_bytes' = <<>>) =>
          IF Len(cmd') \in 10..18
            THEN /\ sent' = FullCommandOf(cmd')
                 /\ raised'.type # "ValueError"
            ELSE /\ sent' = <<>>
                 /\ raised'.type = "ValueError"]_vars

\* A body of 18 characters was sent.
C30_Witness ==
    /\ Len(cmd) = 18
    /\ cmd[18] = "~"
    /\ sent # <<>>
    /\ reply_bytes = <<>>

\* The command that reads each mask.
MaskCommandOf ==
    [level1 |-> ReadL1Command, level21 |-> ReadL2Command \o <<"1">>,
     level22 |-> ReadL2Command \o <<"2">>, warnings |-> ReadWarningsCommand]

\* C29: the decode of MockChiller.format_mask(v) is v for every mask value
\* that fits in the field width: when the reply to the read of a mask is
\* handled, the published level1, level21, level22 or warnings mask is the
\* value programmed on the mock chiller.
C29_MaskRoundTrip ==
    [][(sent # <<>> /\ sent' = <<>>) =>
          \A field \in MaskFields :
              cmd = MaskCommandOf[field] =>
                  published_masks'[field] = {mock_masks[field]}]_vars

\* A mask of eight different digits was programmed, read and published.
C29_Witness ==
    /\ mock_masks.level21 = 305419896
    /\ published_masks.level21 = {305419896}
    /\ sent = <<>>

\* The checksum embedded in a frame (the two characters before the final
\* '\r') matches the checksum computed over the bytes before it, the hex
\* digits compared by value and so without regard to case.
verifyChecksum(frame) ==
    LET n == Len(frame)
        embedded == SubSeq(frame, n - 2, n - 1)
        computed == compute_checksum(SubSeq(frame, 1, n - 3))
    IN  /\ \A i \in 1..2 : embedded[i] \in DOMAIN HexValue
        /\ \A i \in 1..2 : HexValue[embedded[i]] = HexValue[computed[i]]

\* C22: a reply whose embedded checksum does not match the checksum
\* computed over the bytes before it is dropped: its data is not decoded
\* and no topic changes.
C22_BadChecksumDropped ==
    [][(sent # <<>> /\ sent' = <<>> /\ ~verifyChecksum(reply_bytes)) =>
          /\ written' = {}
          /\ published_masks' = published_masks
          /\ seen_temperatures' = seen_temperatures
          /\ seen_alarms' = seen_alarms]_vars

\* The command IDs of the thresholds: warnings 21 to 25, alarms 26 to 30.
ThresholdIdOf ==
    [warning |-> [HighSupplyTemperature |-> <<"2", "1">>,
                  LowSupplyTemperature |-> <<"2", "2">>,
                  HighAmbientTemperature |-> <<"2", "3">>,
                  LowAmbientTemperature |-> <<"2", "4">>,
                  LowCoolantFlowRate |-> <<"2", "5">>],
     alarm |-> [HighSupplyTemperature |-> <<"2", "6">>,
                LowSupplyTemperature |-> <<"2", "7">>,
                HighAmbientTemperature |-> <<"2", "8">>,
                LowAmbientTemperature |-> <<"2", "9">>,
                LowCoolantFlowRate |-> <<"3", "0">>]]

\* C28: each of the ten threshold commands uses its own command ID, warning
\* thresholds 21 to 25 and alarm thresholds 26 to 30, so after
\* configure_chiller completes every alarm threshold and every warning
\* threshold held by the chiller equals its configured value.
C28_ThresholdsAsConfigured ==
    configure_pc = ConfigureDone =>
        \A kind \in ThresholdKinds : \A i \in 1..Len(ThresholdTypes) :
            chiller_thresholds[ThresholdIdOf[kind][ThresholdTypes[i]]] =
                format_chiller_command_value(
                    ConfigValue(thresholds, kind, ThresholdTypes[i]))

\* basic_disconnect has closed the LabJack and called set_status.
LampDisconnectedStep == labjack_connected /\ ~labjack_connected'

\* C25: after the lamp model disconnects, the published basicState is
\* UNKNOWN, whatever state the lamp was in before the disconnect.
C25_DisconnectedIsUnknown ==
    [][LampDisconnectedStep => evt_lampState'.basicState = "UNKNOWN"]_vars

\* C23: if the last published shutter state is INVALID, move_shutter in
\* either direction raises ExpectedError without writing shutter_direction
\* or shutter_enable and without changing the commanded state.
C23_InvalidShutterRefused ==
    [][(shutter_call' # "none" /\ evt_shutterState.actualState = "INVALID") =>
          /\ shutter_result' = "ExpectedError"
          /\ shutter_written' = {}
          /\ evt_shutterState' = evt_shutterState
          /\ UNCHANGED <<do_open_shutter, shutter_enabled>>]_vars

\* move_shutter(do_open=False) was refused with both switches active.
C23_Witness ==
    /\ shutter_call = "close"
    /\ shutter_result = "ExpectedError"
    /\ evt_shutterState.actualState = "INVALID"
    /\ evt_shutterState.commandedState = "OPEN"

\* C24: once move_shutter has enabled the shutter motor, the motor is
\* disabled again (shutter_enable = disable written and enabled=False
\* published) before move_shutter returns or raises: on success, on
\* timeout and on cancellation.
C24_MotorDisabledAtEnd ==
    [][(shutter_pc # "idle" /\ shutter_pc' = "idle") =>
          /\ ~shutter_enabled'
          /\ "shutter_enable" \in shutter_written'
          /\ ~evt_shutterState'.enabled]_vars

\* C26: at most one status loop task polls the LabJack at any time, across
\* any sequence of connect and disconnect calls, connect while connected
\* included; the state updates of two polls never interleave.
C26_OneStatusLoop ==
    /\ Cardinality(LiveStatusLoops) <= 1
    /\ Cardinality({i \in DOMAIN status_loops :
                       status_loops[i] = "update"}) <= 1

\* The error the decoding of a code must publish.
ExpectedError(code) == IF code \in KnownErrors THEN code ELSE ErrorUnknown

\* C27: when the controller reports an error by blinking N pulses followed
\* by a gap, the published controllerError is UNKNOWN while the code is
\* being counted and then becomes LampControllerError(N) if N names a known
\* error and stays UNKNOWN otherwise; controllerError returns to NONE when
\* error_exists clears.  Stated of each poll of the status loop, which
\* goes on polling.
C27_BlinkingErrorDecoded ==
    [][tai' # tai =>
          /\ ~error_exists => controllerError' = ErrorNone
          /\ (/\ error_exists
              /\ tai >= controller.since
              /\ tai < controller.since + CodeTicks(controller.code)
                           - BlinkOff) =>
                 controllerError' = ErrorUnknown
          /\ (/\ error_exists
              /\ tai >= controller.since + CycleTicks(controller.code)) =>
                 controllerError' = ExpectedError(controller.code)]_vars

\* C31 (as claimed): run_command fails only with the not-connected error
\* or a timeout; a call that is waiting for the communication lock when
\* disconnect() has completed fails with the not-connected error and writes
\* nothing to the socket.
C31_FailsOnlyNotConnectedOrTimeout ==
    /\ [](\A p \in Callers :
             cres[p] \in {"none", "ok", "notconnected", "timeout"})
    /\ [][\A p \in Callers :
             (cpc[p] = "waiting" /\ cpc'[p] # "waiting"
                  /\ client_state = "closed") =>
                 cres'[p] = "notconnected" /\ to_chiller' = to_chiller]_vars

\* C32 (as claimed): while the lamp model stays connected the status loop
\* keeps polling: a status callback invoked from inside the poll loop never
\* waits on lamp_on_future or lamp_off_future, so the loop neither blocks
\* nor ends.
C32_CallbackNeverWaits ==
    /\ pc["status"] \notin {"await_on", "await_off", "await_off_plain"}
    /\ labjack_connected => pc["status"] # "none"

\* C33 (as claimed): after disconnect() of a connected LampModel returns
\* normally, the last lamp set voltage written to the LabJack is 0 whenever
\* a nonzero power had been written before, also when disconnect is called
\* before the first status poll after turn_lamp_on wrote the power.
C33_DisconnectLeavesLampOff ==
    \A t \in Tasks :
        Rec(t, "disconnect", "ok") \in ended => lamp_set_voltage = 0

\* C34 (as claimed): if the lamp status loop raises an exception (for
\* example a LabJack read failure), both completion futures are failed and
\* the model ends fully disconnected (connected is false and the
\* disconnected state is published), also when the lamp was commanded on
\* at the time of the failure.
C34_FailedLoopDisconnects ==
    \A r \in ended :
        (r.task = "status" /\ r.op = "faildisc") =>
            /\ ~labjack_connected
            /\ evt_lampState.basicState \in {"UNKNOWN", "COOLDOWN"}
            /\ lamp_on_future # "pending"
            /\ lamp_off_future # "pending"

\* C35 (as claimed): every lamp_on_future or lamp_off_future created by
\* turn_lamp_on or turn_lamp_off eventually becomes done, even if the
\* LabJack power write raises, so that a failed call leaves no later
\* turn_lamp_off call waiting without bound.
C35_FuturesBecomeDone ==
    /\ (lamp_on_future = "pending") ~> (lamp_on_future # "pending")
    /\ (lamp_off_future = "pending") ~> (lamp_off_future # "pending")
    /\ \A t \in Tasks :
          (pc[t] = "await_off_plain") ~> (pc[t] # "await_off_plain")

\* C36 (as claimed): after the lamp was declared UNEXPECTEDLY_OFF, a later
\* valid turn_lamp_on on the same connection, with the photo sensor then
\* seeing light, is tracked as commanded on and reaches WARMUP, the model
\* stops writing power 0 on every poll, and the call completes
\* successfully.
C36_OnAfterUnexpectedlyOff ==
    /\ [][(/\ SetStatusStep
           /\ lamp_unexpectedly_off
           /\ labjack_connected
           /\ data.volt > LAMP_SET_VOLTAGE_ON_THRESHOLD
           /\ data.light) =>
              /\ lamp_was_on' = "True"
              /\ evt_lampState'.basicState = "WARMUP"
              /\ ~ForceOff']_vars
    /\ [][\A t \in Tasks :
             (/\ lamp_unexpectedly_off
              /\ pc[t] = "await_on"
              /\ seen[t] = "light"
              /\ pc'[t] = "idle") => Rec(t, "on", "ok") \in ended']_vars

\* C37: in every lamp state published while connected, basicState ON
\* implies that the remaining warmup is 0 and WARMUP that it is > 0, OFF
\* implies that the remaining cooldown is 0 and COOLDOWN that it is > 0; so
\* WARMUP becomes ON only once warmup_period has elapsed since the on-time
\* and COOLDOWN becomes OFF only once cooldown_period has elapsed since the
\* off-time.
C37_StateMatchesTimers ==
    /\ [][(SetStatusStep /\ labjack_connected) =>
             LET b == evt_lampState'.basicState
                 warmupLeft == Max(0, evt_lampState'.warmupEndTime - now')
                 cooldownLeft == Max(0, evt_lampState'.cooldownEndTime - now')
             IN  /\ b = "ON" => warmupLeft = 0
                 /\ b = "WARMUP" => warmupLeft > 0
                 /\ b = "OFF" => cooldownLeft = 0
                 /\ b = "COOLDOWN" => cooldownLeft > 0]_vars
    /\ [][(/\ SetStatusStep /\ labjack_connected
           /\ evt_lampState.basicState = "WARMUP"
           /\ evt_lampState'.basicState = "ON") =>
              /\ lamp_on_time' = lamp_on_time
              /\ now' - lamp_on_time >= warmup_period]_vars
    /\ [][(/\ SetStatusStep /\ labjack_connected
           /\ evt_lampState.basicState = "COOLDOWN"
           /\ evt_lampState'.basicState = "OFF") =>
              /\ lamp_off_time' = lamp_off_time
              /\ now' - lamp_off_time >= cooldown_period]_vars

\* C37 witness: a poll has just published OFF for a lamp that was on for
\* the warmup period and then off for the cooldown period.
C37_Witness ==
    /\ pc["status"] = "resolve"
    /\ labjack_connected
    /\ evt_lampState.basicState = "OFF"
    /\ lamp_on_time >= StartTime
    /\ lamp_off_time - lamp_on_time >= warmup_period
    /\ now - lamp_off_time >= cooldown_period

\* C38 (as claimed): ChillerModel.run_command raises to its caller when
\* the reply handler for the reply raises an exception, so that a periodic
\* loop issuing that command treats it as a failure instead of continuing:
\* in a step in which an exception leaves a running reply handler, the
\* run_command that called the handler does not return normally.
C38_HandlerErrorRaises ==
    [][\A t \in CmTasks :
          (Len(stack'[t]) < Len(stack[t]) /\ raised' # NoError) =>
              tpc'[t] # "returned"]_vars

\* Every seen set is empty.
SeenSetsEmpty ==
    /\ seen_alarms = {}
    /\ seen_fan_speeds = {}
    /\ seen_tec_bank_currents = {}
    /\ seen_temperatures = {}

LampAlreadyOn ==
    /\ labjack_connected
    /\ lamp_set_voltage > LAMP_SET_VOLTAGE_ON_THRESHOLD
    /\ lamp_was_on = "True"
    /\ evt_lampState.basicState \in {"WARMUP", "ON"}

\* The times of the last turn on and turn off, and the end times published
\* from them, are the same after the step.
OnOffTimesKept ==
    /\ lamp_on_time' = lamp_on_time
    /\ lamp_off_time' = lamp_off_time
    /\ evt_lampState'.warmupEndTime = evt_lampState.warmupEndTime
    /\ evt_lampState'.cooldownEndTime = evt_lampState.cooldownEndTime

\* C40: turn_lamp_on called while the lamp is already on (WARMUP or ON)
\* changes the set power but leaves lamp_on_time, and hence warmupEndTime,
\* and lamp_off_time unchanged: the call writes the set voltage of the
\* new power, at once or when it gets the lock, and neither the call, nor
\* the write, nor a poll that runs while the call waits and sees the light,
\* changes the times or takes the lamp out of WARMUP / ON.
C40_PowerChangeKeepsTimes ==
    /\ [][\A power \in {MIN_POWER, MAX_POWER} :
            (LampAlreadyOn /\ TurnLampOn("t1", power)
             /\ lamp_ncalls' # lamp_ncalls) =>
                /\ OnOffTimesKept
                /\ \/ pc'["t1"] = "lockwait" /\ arg'["t1"].power = power
                   \/ /\ pc'["t1"] = "await_on"
                      /\ lamp_set_voltage' = voltage_from_power(power)]_vars
    /\ [][(LampAlreadyOn /\ TurnLampOnWrites("t1")) =>
             /\ OnOffTimesKept
             /\ lamp_set_voltage' = voltage_from_power(arg["t1"].power)]_vars
    /\ [][(LampAlreadyOn /\ op["t1"] = "on" /\ SetStatusStep /\ data.light
           /\ data.volt > LAMP_SET_VOLTAGE_ON_THRESHOLD) =>
             /\ OnOffTimesKept
             /\ evt_lampState'.basicState \in {"WARMUP", "ON"}
             /\ lamp_was_on' = "True"]_vars

\* turn_lamp_on, called after a poll reported the lamp on again after an
\* earlier turn off, wrote the set voltage of the maximum power and waits
\* for the next poll.
C40_Witness ==
    /\ LampAlreadyOn
    /\ pc["status"] = "sleep"
    /\ pc["t1"] = "await_on"
    /\ lamp_on_future = "pending"
    /\ lamp_set_voltage = VOLTS_AT_MAX_POWER
    /\ lamp_off_time > 0
    /\ lamp_on_time > lamp_off_time

====
